---------------------------- MODULE Spec2Model ----------------------------
(* espefuse: the burn-key, burn-key-digest and set-flash-voltage commands  *)
(* of the ESP32, ESP32-C6, ESP32-H2, ESP32-H21 and ESP32-P4 operation      *)
(* classes, over an eFuse image with a burned and a pending side.          *)
EXTENDS Integers, Sequences, FiniteSets, TLC

VARIABLES
    chip,           \* "ESP32" | "C6" | "H2" | "H21" | "P4"
    chip_version,   \* efuses.get_chip_version() (read by the H2 commands)
    chip_revision,  \* esp.get_chip_revision() (read by ESP32 burn_key_digest)
    coding_scheme,  \* efuses.coding_scheme: "NONE" | "34"
    transport,      \* the link to the chip: "ok" | "fail_unburned" | "fail_burned"
    batch_mode,     \* efuses.batch_mode_cnt != 0
    efuses,         \* [burned |-> image, pending |-> image]
    phase,          \* "idle" | "done": a command has run and not yet returned
    cmd,            \* arguments of the command that ran
    trace,          \* the staging and commit calls the command made, in order
    out,            \* how the command ended
    pre,            \* efuses as they were when the command started
    first,          \* set when the command is a re-invocation of the one before
    ncmds           \* commands run so far

config == <<chip, chip_version, chip_revision, coding_scheme, transport>>
vars == <<chip, chip_version, chip_revision, coding_scheme, transport, batch_mode,
          efuses, phase, cmd, trace, out, pre, first, ncmds>>

-----------------------------------------------------------------------------
(* Bounds of the model *)

MaxCmds == 2
NumKeyBlocks == 3

(* Program constants *)

BlockBitLen == 256
CodedBitLen == 192
WideKeyBytes == 64
HalfKeyBytes == 32
EcdsaShortBytes == 24
EcdsaPadBytes == 8
MinSbv2Revision == 300
MaxHwKVersion == 101

None == "<None>"
Chips == {"ESP32", "C6", "H2", "H21", "P4"}
KeyBlocks == 1..NumKeyBlocks

-----------------------------------------------------------------------------
(* Byte strings *)

RECURSIVE BitOr(_, _)
BitOr(a, b) ==
    IF a = 0 THEN b
    ELSE IF b = 0 THEN a
    ELSE (IF a % 2 = 1 \/ b % 2 = 1 THEN 1 ELSE 0) + 2 * BitOr(a \div 2, b \div 2)

OrBytes(x, y) == [i \in 1..Len(x) |-> IF i <= Len(y) THEN BitOr(x[i], y[i]) ELSE x[i]]

Zeros(n) == [i \in 1..n |-> 0]

\* data[::-1]
Reverse(s) == [i \in 1..Len(s) |-> s[Len(s) + 1 - i]]

-----------------------------------------------------------------------------
(* Chip variant tables *)

KeyBlockNames(c) ==
    IF c = "ESP32" THEN <<"BLOCK1", "BLOCK2", "BLOCK3">>
    ELSE <<"BLOCK_KEY0", "BLOCK_KEY1", "BLOCK_KEY2", "BLOCK_KEY3", "BLOCK_KEY4", "BLOCK_KEY5">>

KeyBlockAlias(c) ==
    IF c = "ESP32" THEN <<{"flash_encryption"}, {"secure_boot_v1", "secure_boot_v2"}, {}>>
    ELSE <<{"KEY0"}, {"KEY1"}, {"KEY2"}, {"KEY3"}, {"KEY4"}, {"KEY5"}>>

\* self.efuses.blocks, restricted to the key blocks
Blocks(c) == IF c = "ESP32" THEN 1..Len(KeyBlockNames(c)) ELSE KeyBlocks

\* efuse.bit_len // 8
num_bytes(c, scheme) ==
    IF c = "ESP32" /\ scheme = "34" THEN CodedBitLen \div 8 ELSE BlockBitLen \div 8

\* the blocks whose name or alias is block_name (the lookup loop keeps the last)
Matching(c, block_name) ==
    {b \in Blocks(c) : block_name = KeyBlockNames(c)[b] \/ block_name \in KeyBlockAlias(c)[b]}

\* get_index_block_by_name: the block's index, 0 for no such block
get_index_block_by_name(c, block_name) ==
    IF Matching(c, block_name) = {} THEN 0
    ELSE CHOOSE b \in Matching(c, block_name) : \A x \in Matching(c, block_name) : b <= x

\* EfuseKeyPurposeField.KEY_PURPOSES: the encoded value of a purpose
PurposeCode(p) ==
    CASE p = "USER" -> 0
      [] p = "ECDSA_KEY" -> 1
      [] p = "XTS_AES_256_KEY_1" -> 2
      [] p = "XTS_AES_256_KEY_2" -> 3
      [] p = "XTS_AES_128_KEY" -> 4
      [] p = "HMAC_UP" -> 8
      [] p = "SECURE_BOOT_DIGEST0" -> 9
      [] OTHER -> 15

need_reverse(p) ==
    p \in {"ECDSA_KEY", "XTS_AES_256_KEY_1", "XTS_AES_256_KEY_2", "XTS_AES_128_KEY"}

need_rd_protect(p) ==
    p \in {"ECDSA_KEY", "XTS_AES_256_KEY_1", "XTS_AES_256_KEY_2", "XTS_AES_128_KEY",
           "HMAC_UP"}

-----------------------------------------------------------------------------
(* The eFuse image: fields, blocks and their protection bits *)

BlankImage(n) ==
    [key  |-> [b \in KeyBlocks |-> Zeros(n)],
     kp   |-> [b \in KeyBlocks |-> 0],
     rd   |-> [b \in KeyBlocks |-> FALSE],
     wr   |-> [b \in KeyBlocks |-> FALSE],
     kpwr |-> [b \in KeyBlocks |-> FALSE],
     hwk  |-> 0,
     sdio_force |-> 0, sdio_reg |-> 0, sdio_tieh |-> 0]

\* block.is_readable() / block.is_writeable(): the burned protection bits
is_readable(ef, b) == ~ef.burned.rd[b]
is_writeable(ef, b) == ~ef.burned.wr[b]
kp_is_writeable(ef, b) == ~ef.burned.kpwr[b]

\* efuses[block.key_purpose_name].get(): the burned purpose
kp_get(ef, b) == ef.burned.kp[b]

\* a value that would clear a burned bit
ClearsBits(value, burned) ==
    \E i \in 1..Len(burned) : i > Len(value) \/ BitOr(value[i], burned[i]) # value[i]

\* efuse.save(data) on a key block: may the value be staged
key_save_ok(ef, b, data) ==
    /\ ~ClearsBits(data, ef.burned.key[b])
    /\ (data # ef.burned.key[b] => is_writeable(ef, b))

key_save(ef, b, data) ==
    [ef EXCEPT !.pending.key[b] = OrBytes(@, data)]

kp_save_ok(ef, b, code) == BitOr(code, ef.burned.kp[b]) = code

kp_save(ef, b, code) == [ef EXCEPT !.pending.kp[b] = BitOr(@, code)]

\* efuse.disable_read() / efuse.disable_write() of a key block
disable_read(ef, b) == [ef EXCEPT !.pending.rd[b] = TRUE]
disable_write(ef, b) == [ef EXCEPT !.pending.wr[b] = TRUE]
\* efuses[block.key_purpose_name].disable_write()
kp_disable_write(ef, b) == [ef EXCEPT !.pending.kpwr[b] = TRUE]

\* the physical burn of everything pending
Commit(ef) == [ef EXCEPT !.burned = ef.pending]

\* efuses.burn_all(check_batch_mode=True): FALSE when the burn is deferred to
\* the end of the batch
burn_all_commits(batch) == ~batch

\* the burn itself, over the link to the chip: the link works, or it fails
\* before the chip has burned anything, or after the chip has burned
burn_raises == transport # "ok"
Burn(ef) == IF transport = "fail_unburned" THEN ef ELSE Commit(ef)


-----------------------------------------------------------------------------
(* Key files and what the external readers return for them *)

KeyA == [i \in 1..(BlockBitLen \div 8) |-> i]
KeyB == [i \in 1..(BlockBitLen \div 8) |-> 255]
Short31 == [i \in 1..(BlockBitLen \div 8 - 1) |-> i]
Wide64 == [i \in 1..WideKeyBytes |-> i]
Raw24 == [i \in 1..EcdsaShortBytes |-> i]
DigestA == [i \in 1..(BlockBitLen \div 8) |-> 2 * i]

\* datafile.read(), and for a signing key get_ecdsa_signing_key_raw_bytes
FileBytes(f) ==
    CASE f = "key_a" -> KeyA
      [] f = "key_b" -> KeyB
      [] f = "short31" -> Short31
      [] f = "wide64" -> Wide64
      [] f = "raw24" -> Raw24
      [] OTHER -> <<>>

\* the open key files of a list: a file is modelled by the bytes it holds
Open(l) == [i \in DOMAIN l |-> FileBytes(l[i])]

\* espsecure._digest_sbv2_public_key(datafile)
digest_sbv2_public_key(f) == DigestA

-----------------------------------------------------------------------------
(* A command in progress: the image, the calls made so far, the outcome *)

Ok == [status |-> "ok", err |-> "", at |-> 0]
St0(ef) == [ef |-> ef, trace |-> <<>>, out |-> Ok, dis_kp |-> FALSE]
Raise(st, err, i) == [st EXCEPT !.out = [status |-> "raise", err |-> err, at |-> i]]
Raised(st) == st.out.status = "raise"
Ev(op, blk, data, kp) == [op |-> op, blk |-> blk, data |-> data, kp |-> kp]
Log(st, e) == [st EXCEPT !.trace = Append(@, e)]

\* list[0 : len([name for name in list if name is not None])]
Truncate(l) == SubSeq(l, 1, Cardinality({i \in DOMAIN l : l[i] # None}))

\* util.check_duplicate_name_in_list
HasDuplicate(l) == \E i, j \in DOMAIN l : i < j /\ l[i] = l[j]

Min(x, y) == IF x <= y THEN x ELSE y

\* zip(block_name_list, datafile_list, keypurpose_list)
Zip3(bl, dl, pl) ==
    [i \in 1..Min(Len(bl), Min(Len(dl), Len(pl))) |->
        [block_name |-> bl[i], datafile |-> dl[i], keypurpose |-> pl[i]]]

-----------------------------------------------------------------------------
(* The steps of burn_key's loop body that the C6, H2, H21 and P4 classes share *)

\* C10 variant: the byte order is never reversed
ReverseNever(keypurpose, data) == data

\* data = data[::-1] when the purpose needs it
ReverseFor(keypurpose, data) == IF need_reverse(keypurpose) THEN Reverse(data) ELSE data

\* print(" - %s" % (efuse.name)): the loop body has its block and its data
BeginEntry(st, b, data, keypurpose) ==
    Log([st EXCEPT !.dis_kp = FALSE], Ev("entry", b, data, keypurpose))

\* C5 variant: only a payload that is too long is refused
SizeTooLong(data, n) == Len(data) > n

\* if len(data) != num_bytes
SizeMismatch(data, n) == Len(data) # n

\* C7 variant: --no-read-protect is ignored
ReadProtectIgnoringFlag(keypurpose, no_read_protect) == need_rd_protect(keypurpose)

\* read_protect, from the purpose and --no-read-protect
ReadProtect(keypurpose, no_read_protect) ==
    IF need_rd_protect(keypurpose) THEN (IF no_read_protect THEN FALSE ELSE TRUE) ELSE FALSE

\* C4 variant: the counts are compared before the names are checked for duplicates
CountBeforeDuplicate(block_name_list, datafile_list, keypurpose_list) ==
    IF Len(block_name_list) # Len(datafile_list)
       \/ Len(block_name_list) # Len(keypurpose_list)
    THEN "count"
    ELSE IF HasDuplicate(block_name_list) THEN "duplicate"
    ELSE ""

\* C27 variant: the lists are not checked before the loop
PreChecksSkipped(block_name_list, datafile_list, keypurpose_list) == ""

\* the checks before the loop: "" when the lists pass
PreChecks(block_name_list, datafile_list, keypurpose_list) ==
    IF HasDuplicate(block_name_list) THEN "duplicate"
    ELSE IF Len(block_name_list) # Len(datafile_list)
            \/ Len(block_name_list) # Len(keypurpose_list)
    THEN "count"
    ELSE ""

\* C25 variant: the key data is staged without the check against the burned bits
StageKeyUnchecked(st, b, data, i) ==
    Log([st EXCEPT !.ef = key_save(@, b, data)], Ev("save_key", b, data, ""))

\* efuse.save(data)
StageKey(st, b, data, i) ==
    IF key_save_ok(st.ef, b, data)
    THEN Log([st EXCEPT !.ef = key_save(@, b, data)], Ev("save_key", b, data, ""))
    ELSE Raise(st, "save", i)

\* C3 variant: the requested purpose is compared with the pending purpose
StagePurposeAgainstPending(st, b, keypurpose, i) ==
    IF st.ef.pending.kp[b] # PurposeCode(keypurpose)
    THEN IF kp_is_writeable(st.ef, b)
         THEN IF kp_save_ok(st.ef, b, PurposeCode(keypurpose))
              THEN Log([st EXCEPT !.ef = kp_save(@, b, PurposeCode(keypurpose)),
                                  !.dis_kp = TRUE],
                       Ev("save_kp", b, <<>>, keypurpose))
              ELSE Raise(st, "save", i)
         ELSE Raise(st, "kp_write_protected", i)
    ELSE [st EXCEPT !.dis_kp = kp_is_writeable(st.ef, b)]

\* C35 variant: a purpose that is already burned is left without write protection
StagePurposeProtectsNewOnly(st, b, keypurpose, i) ==
    IF kp_get(st.ef, b) # PurposeCode(keypurpose)
    THEN IF kp_is_writeable(st.ef, b)
         THEN IF kp_save_ok(st.ef, b, PurposeCode(keypurpose))
              THEN Log([st EXCEPT !.ef = kp_save(@, b, PurposeCode(keypurpose)),
                                  !.dis_kp = TRUE],
                       Ev("save_kp", b, <<>>, keypurpose))
              ELSE Raise(st, "save", i)
         ELSE Raise(st, "kp_write_protected", i)
    ELSE [st EXCEPT !.dis_kp = FALSE]

\* the comparison of the burned purpose with the requested one
StagePurpose(st, b, keypurpose, i) ==
    IF kp_get(st.ef, b) # PurposeCode(keypurpose)
    THEN IF kp_is_writeable(st.ef, b)
         THEN IF kp_save_ok(st.ef, b, PurposeCode(keypurpose))
              THEN Log([st EXCEPT !.ef = kp_save(@, b, PurposeCode(keypurpose)),
                                  !.dis_kp = TRUE],
                       Ev("save_kp", b, <<>>, keypurpose))
              ELSE Raise(st, "save", i)
         ELSE Raise(st, "kp_write_protected", i)
    ELSE [st EXCEPT !.dis_kp = kp_is_writeable(st.ef, b)]

\* C29 variant: the fuse is staged whatever the purpose of the entry
StageHardwareKAnyPurpose(st, keypurpose) ==
    IF st.ef.burned.hwk = 0
    THEN Log([st EXCEPT !.ef.pending.hwk = 1], Ev("save_hwk", 0, <<>>, ""))
    ELSE st

\* ECDSA_FORCE_USE_HARDWARE_K for an ECDSA_KEY entry
StageHardwareK(st, keypurpose) ==
    IF keypurpose = "ECDSA_KEY" /\ st.ef.burned.hwk = 0
    THEN Log([st EXCEPT !.ef.pending.hwk = 1], Ev("save_hwk", 0, <<>>, ""))
    ELSE st

\* C39 variant: the purpose fields of all key blocks are write-protected
StageKpWriteProtectEveryBlock(st, b) ==
    IF st.dis_kp
    THEN Log([st EXCEPT !.ef.pending.kpwr = [x \in DOMAIN @ |-> TRUE]],
             Ev("wr_dis_kp", b, <<>>, ""))
    ELSE st

\* the three protection writes that end the loop body
StageKpWriteProtect(st, b) ==
    IF st.dis_kp
    THEN Log([st EXCEPT !.ef = kp_disable_write(@, b)], Ev("wr_dis_kp", b, <<>>, ""))
    ELSE st

\* C17 variant: the read protection of the key block is never staged
StageReadProtectNever(st, b, read_protect) == st

\* C26 variant: the read protection is staged only with a newly assigned purpose
StageReadProtectWithNewPurpose(st, b, read_protect) ==
    IF read_protect /\ kp_get(st.ef, b) # st.ef.pending.kp[b]
    THEN Log([st EXCEPT !.ef = disable_read(@, b)], Ev("rd_dis", b, <<>>, ""))
    ELSE st

StageReadProtect(st, b, read_protect) ==
    IF read_protect
    THEN Log([st EXCEPT !.ef = disable_read(@, b)], Ev("rd_dis", b, <<>>, ""))
    ELSE st

\* C8 variant: the block is write-protected whatever the flag says
WriteProtectAlways(st, b, write_protect) ==
    Log([st EXCEPT !.ef = disable_write(@, b)], Ev("wr_dis", b, <<>>, ""))

\* C9 variant: the pending write-protection bit is assigned from the flag
WriteProtectAssigned(st, b, write_protect) ==
    IF write_protect
    THEN Log([st EXCEPT !.ef = disable_write(@, b)], Ev("wr_dis", b, <<>>, ""))
    ELSE [st EXCEPT !.ef.pending.wr[b] = FALSE]

StageWriteProtect(st, b, write_protect) ==
    IF write_protect
    THEN Log([st EXCEPT !.ef = disable_write(@, b)], Ev("wr_dis", b, <<>>, ""))
    ELSE st

\* C16 variant: success is reported whatever burn_all returns
BurnAllThenSuccessful(st, batch) ==
    IF burn_all_commits(batch)
    THEN Log([st EXCEPT !.ef = Commit(@)], Ev("burn_all", 0, <<>>, "True"))
    ELSE Log(st, Ev("burn_all", 0, <<>>, "False"))

\* C1 variant: burn_all is called again after it returns
BurnAllTwice(st, batch) ==
    IF burn_all_commits(batch)
    THEN Log(Log([st EXCEPT !.ef = Commit(@)], Ev("burn_all", 0, <<>>, "True")),
             Ev("burn_all", 0, <<>>, "True"))
    ELSE Log(Log([st EXCEPT !.out = [status |-> "deferred", err |-> "", at |-> 0]],
                 Ev("burn_all", 0, <<>>, "False")),
             Ev("burn_all", 0, <<>>, "False"))

\* C21 variant: an error of burn_all is caught and the command returns
BurnAllErrorCaught(st, batch) ==
    IF burn_all_commits(batch)
    THEN Log([st EXCEPT !.ef = Burn(@)], Ev("burn_all", 0, <<>>, "True"))
    ELSE Log([st EXCEPT !.out = [status |-> "deferred", err |-> "", at |-> 0]],
             Ev("burn_all", 0, <<>>, "False"))

\* if not self.efuses.burn_all(check_batch_mode=True): return / print("Successful")
BurnAllStep(st, batch) ==
    IF burn_all_commits(batch)
    THEN IF burn_raises
         THEN Raise(Log([st EXCEPT !.ef = Burn(@)], Ev("burn_all", 0, <<>>, "raise")),
                    "transport", 0)
         ELSE Log([st EXCEPT !.ef = Commit(@)], Ev("burn_all", 0, <<>>, "True"))
    ELSE Log([st EXCEPT !.out = [status |-> "deferred", err |-> "", at |-> 0]],
             Ev("burn_all", 0, <<>>, "False"))

-----------------------------------------------------------------------------
(* ESP32-C6 *)

C6_entry(st, row, i, a) ==
    LET b == get_index_block_by_name("C6", row.block_name)
        loaded == row.datafile
        data == ReverseFor(row.keypurpose, loaded)
        read_protect == ReadProtect(row.keypurpose, a.no_read_protect)
        write_protect == ~a.no_write_protect
        s0 == BeginEntry(st, b, loaded, row.keypurpose)
        s1 == StageKey(s0, b, data, i)
        s2 == IF Raised(s1) THEN s1 ELSE StagePurpose(s1, b, row.keypurpose, i)
    IN  IF b = 0 THEN Raise(st, "unknown_block", i)
        ELSE IF SizeMismatch(data, num_bytes("C6", "NONE")) THEN Raise(s0, "size", i)
        ELSE IF Raised(s2) THEN s2
        ELSE StageWriteProtect(
                 StageReadProtect(StageKpWriteProtect(s2, b), b, read_protect),
                 b, write_protect)

RECURSIVE C6_loop(_, _, _, _)
C6_loop(st, rows, i, a) ==
    IF i > Len(rows) THEN st
    ELSE LET r == C6_entry(st, rows[i], i, a)
         IN  IF Raised(r) THEN r ELSE C6_loop(r, rows, i + 1, a)

C6_burn_key(ef, a, batch) ==
    LET datafile_list == IF a.digest_given THEN a.digest ELSE Open(Truncate(a.keyfile))
        block_name_list == Truncate(a.block)
        keypurpose_list == Truncate(a.keypurpose)
        s == C6_loop(St0(ef), Zip3(block_name_list, datafile_list, keypurpose_list), 1, a)
        pre_err == PreChecks(block_name_list, datafile_list, keypurpose_list)
    IN  IF pre_err # "" THEN Raise(St0(ef), pre_err, 0)
        ELSE IF Raised(s) THEN s
        ELSE IF Len(block_name_list) = 0 THEN Raise(s, "unbound_local", 0)
        ELSE BurnAllStep(s, batch)

\* the digest pass of burn_key_digest, shared by the C6, H2, H21 and P4 classes:
\* the digests of the zipped entries, or the first entry that fails
\* C28 variant: only the first entry is checked before burn_key is called
digest_pass_first_entry(c, block_list, datafile_list, i) ==
    IF Min(Len(block_list), Len(datafile_list)) = 0 THEN [err |-> "", at |-> 0, list |-> <<>>]
    ELSE IF get_index_block_by_name(c, block_list[1]) = 0
    THEN [err |-> "unknown_block", at |-> 1, list |-> <<>>]
    ELSE [err |-> "", at |-> 0,
          list |-> [j \in 1..Min(Len(block_list), Len(datafile_list)) |->
                       digest_sbv2_public_key(datafile_list[j])]]

RECURSIVE digest_pass(_, _, _, _)
digest_pass(c, block_list, datafile_list, i) ==
    IF i > Min(Len(block_list), Len(datafile_list)) THEN [err |-> "", at |-> 0, list |-> <<>>]
    ELSE IF get_index_block_by_name(c, block_list[i]) = 0
    THEN [err |-> "unknown_block", at |-> i, list |-> <<>>]
    ELSE IF SizeMismatch(digest_sbv2_public_key(datafile_list[i]), num_bytes(c, "NONE"))
    THEN [err |-> "digest_size", at |-> i, list |-> <<>>]
    ELSE LET rest == digest_pass(c, block_list, datafile_list, i + 1)
         IN  [rest EXCEPT !.list = <<digest_sbv2_public_key(datafile_list[i])>> \o @]

\* the arguments burn_key_digest hands to burn_key
DigestArgs(a, block_list, digest_list) ==
    [a EXCEPT !.block = block_list, !.digest_given = TRUE, !.digest = digest_list]

C6_burn_key_digest(ef, a, batch) ==
    LET datafile_list == Truncate(a.keyfile)
        block_list == Truncate(a.block)
        d == digest_pass("C6", block_list, datafile_list, 1)
    IN  IF d.err # "" THEN Raise(St0(ef), d.err, d.at)
        ELSE C6_burn_key(ef, DigestArgs(a, block_list, d.list), batch)

-----------------------------------------------------------------------------
(* ESP32-H2 *)

\* C20 variant: the padding is added after the key
EcdsaPadRight(data) ==
    IF Len(data) = EcdsaShortBytes THEN data \o Zeros(EcdsaPadBytes) ELSE data

\* the raw signing key, padded on the left when it is a NIST192p key
EcdsaPad(data) ==
    IF Len(data) = EcdsaShortBytes THEN Zeros(EcdsaPadBytes) \o data ELSE data

H2_entry(st, row, i, a) ==
    LET b == get_index_block_by_name("H2", row.block_name)
        loaded == IF ~a.digest_given /\ row.keypurpose = "ECDSA_KEY"
                  THEN EcdsaPad(row.datafile) ELSE row.datafile
        data == ReverseFor(row.keypurpose, loaded)
        read_protect == ReadProtect(row.keypurpose, a.no_read_protect)
        write_protect == ~a.no_write_protect
        s0 == BeginEntry(st, b, loaded, row.keypurpose)
        s1 == StageKey(s0, b, data, i)
        s2 == IF Raised(s1) THEN s1 ELSE StagePurpose(s1, b, row.keypurpose, i)
        s3 == IF chip_version <= MaxHwKVersion THEN StageHardwareK(s2, row.keypurpose) ELSE s2
    IN  IF b = 0 THEN Raise(st, "unknown_block", i)
        ELSE IF SizeMismatch(data, num_bytes("H2", "NONE")) THEN Raise(s0, "size", i)
        ELSE IF Raised(s2) THEN s2
        ELSE StageWriteProtect(
                 StageReadProtect(StageKpWriteProtect(s3, b), b, read_protect),
                 b, write_protect)

RECURSIVE H2_loop(_, _, _, _)
H2_loop(st, rows, i, a) ==
    IF i > Len(rows) THEN st
    ELSE LET r == H2_entry(st, rows[i], i, a)
         IN  IF Raised(r) THEN r ELSE H2_loop(r, rows, i + 1, a)

H2_burn_key(ef, a, batch) ==
    LET datafile_list == IF a.digest_given THEN a.digest ELSE Open(Truncate(a.keyfile))
        block_name_list == Truncate(a.block)
        keypurpose_list == Truncate(a.keypurpose)
        s == H2_loop(St0(ef), Zip3(block_name_list, datafile_list, keypurpose_list), 1, a)
        pre_err == PreChecks(block_name_list, datafile_list, keypurpose_list)
    IN  IF pre_err # "" THEN Raise(St0(ef), pre_err, 0)
        ELSE IF Raised(s) THEN s
        ELSE IF Len(block_name_list) = 0 THEN Raise(s, "unbound_local", 0)
        ELSE BurnAllStep(s, batch)

H2_burn_key_digest(ef, a, batch) ==
    LET datafile_list == Truncate(a.keyfile)
        block_list == Truncate(a.block)
        d == digest_pass("H2", block_list, datafile_list, 1)
    IN  IF d.err # "" THEN Raise(St0(ef), d.err, d.at)
        ELSE H2_burn_key(ef, DigestArgs(a, block_list, d.list), batch)

-----------------------------------------------------------------------------
(* ESP32-H21 *)

H21_entry(st, row, i, a) ==
    LET b == get_index_block_by_name("H21", row.block_name)
        loaded == IF ~a.digest_given /\ row.keypurpose = "ECDSA_KEY"
                  THEN EcdsaPad(row.datafile) ELSE row.datafile
        data == ReverseFor(row.keypurpose, loaded)
        read_protect == ReadProtect(row.keypurpose, a.no_read_protect)
        write_protect == ~a.no_write_protect
        s0 == BeginEntry(st, b, loaded, row.keypurpose)
        s1 == StageKey(s0, b, data, i)
        s2 == IF Raised(s1) THEN s1 ELSE StagePurpose(s1, b, row.keypurpose, i)
    IN  IF b = 0 THEN Raise(st, "unknown_block", i)
        ELSE IF SizeMismatch(data, num_bytes("H21", "NONE")) THEN Raise(s0, "size", i)
        ELSE IF Raised(s2) THEN s2
        ELSE StageWriteProtect(
                 StageReadProtect(
                     StageKpWriteProtect(StageHardwareK(s2, row.keypurpose), b),
                     b, read_protect),
                 b, write_protect)

RECURSIVE H21_loop(_, _, _, _)
H21_loop(st, rows, i, a) ==
    IF i > Len(rows) THEN st
    ELSE LET r == H21_entry(st, rows[i], i, a)
         IN  IF Raised(r) THEN r ELSE H21_loop(r, rows, i + 1, a)

H21_burn_key(ef, a, batch) ==
    LET datafile_list == IF a.digest_given THEN a.digest ELSE Open(Truncate(a.keyfile))
        block_name_list == Truncate(a.block)
        keypurpose_list == Truncate(a.keypurpose)
        s == H21_loop(St0(ef), Zip3(block_name_list, datafile_list, keypurpose_list), 1, a)
        pre_err == PreChecks(block_name_list, datafile_list, keypurpose_list)
    IN  IF pre_err # "" THEN Raise(St0(ef), pre_err, 0)
        ELSE IF Raised(s) THEN s
        ELSE IF Len(block_name_list) = 0 THEN Raise(s, "unbound_local", 0)
        ELSE BurnAllStep(s, batch)

H21_burn_key_digest(ef, a, batch) ==
    LET datafile_list == Truncate(a.keyfile)
        block_list == Truncate(a.block)
        d == digest_pass("H21", block_list, datafile_list, 1)
    IN  IF d.err # "" THEN Raise(St0(ef), d.err, d.at)
        ELSE H21_burn_key(ef, DigestArgs(a, block_list, d.list), batch)

-----------------------------------------------------------------------------
(* ESP32-P4 *)

P4_key_block_is_unused(ef, b) ==
    /\ is_readable(ef, b) /\ is_writeable(ef, b)
    /\ kp_get(ef, b) = PurposeCode("USER") /\ kp_is_writeable(ef, b)
    /\ ef.burned.key[b] = Zeros(BlockBitLen \div 8)

\* key_blocks[start:] + key_blocks[0:start]
P4_scan_order(start) == [k \in 1..NumKeyBlocks |-> ((start + k - 2) % NumKeyBlocks) + 1]

\* C13 variant: the blocks the batch names are not excluded from the scan
P4_get_next_key_block_any(ef, current_key_block, block_name_list) ==
    LET order == P4_scan_order(current_key_block)
        free == {k \in 1..NumKeyBlocks : P4_key_block_is_unused(ef, order[k])}
    IN  IF free = {} THEN 0
        ELSE order[CHOOSE k \in free : \A x \in free : k <= x]

\* the first unused key block, from the current one on, whose name the batch
\* does not hold; 0 for None
P4_get_next_key_block(ef, current_key_block, block_name_list) ==
    LET order == P4_scan_order(current_key_block)
        free == {k \in 1..NumKeyBlocks :
                    /\ \A j \in DOMAIN block_name_list :
                           block_name_list[j] # KeyBlockNames("P4")[order[k]]
                    /\ P4_key_block_is_unused(ef, order[k])}
    IN  IF free = {} THEN 0
        ELSE order[CHOOSE k \in free : \A x \in free : k <= x]

\* list.pop(i)
Pop(l, i) == SubSeq(l, 1, i - 1) \o SubSeq(l, i + 1, Len(l))

\* keypurpose_list.index("XTS_AES_256_KEY")
IndexOfWide(keypurpose_list) ==
    CHOOSE i \in DOMAIN keypurpose_list :
        /\ keypurpose_list[i] = "XTS_AES_256_KEY"
        /\ \A j \in 1..(i - 1) : keypurpose_list[j] # "XTS_AES_256_KEY"

\* C15 variant: the length of the wide key is not checked
P4_split_unchecked_size(ef, block_name_list, datafile_list, keypurpose_list) ==
    LET i == IndexOfWide(keypurpose_list)
        block_name == block_name_list[i]
        block == get_index_block_by_name("P4", block_name)
        data == datafile_list[i]
        key_block_2 == P4_get_next_key_block(ef, block, block_name_list)
        lists(err) == [err |-> err, block |-> block_name_list, data |-> datafile_list,
                       purpose |-> keypurpose_list]
    IN  IF i > Len(block_name_list) THEN lists("index_error")
        ELSE IF block = 0 THEN lists("type_error")
        ELSE IF i > Len(datafile_list) THEN lists("index_error")
        ELSE IF key_block_2 = 0 THEN lists("no_free_block")
        ELSE [err |-> "",
              block |-> Pop(block_name_list
                            \o <<block_name, KeyBlockNames("P4")[key_block_2]>>, i),
              data |-> Pop(datafile_list
                           \o <<SubSeq(data, 1, Min(HalfKeyBytes, Len(data))),
                                SubSeq(data, HalfKeyBytes + 1, Len(data))>>, i),
              purpose |-> Pop(keypurpose_list
                              \o <<"XTS_AES_256_KEY_1", "XTS_AES_256_KEY_2">>, i)]

\* C12 variant: the two halves of the key are taken the other way round
P4_split_halves_swapped(ef, block_name_list, datafile_list, keypurpose_list) ==
    LET i == IndexOfWide(keypurpose_list)
        block_name == block_name_list[i]
        block == get_index_block_by_name("P4", block_name)
        data == datafile_list[i]
        key_block_2 == P4_get_next_key_block(ef, block, block_name_list)
        lists(err) == [err |-> err, block |-> block_name_list, data |-> datafile_list,
                       purpose |-> keypurpose_list]
    IN  IF i > Len(block_name_list) THEN lists("index_error")
        ELSE IF block = 0 THEN lists("type_error")
        ELSE IF i > Len(datafile_list) THEN lists("index_error")
        ELSE IF Len(data) # WideKeyBytes THEN lists("wide_size")
        ELSE IF key_block_2 = 0 THEN lists("no_free_block")
        ELSE [err |-> "",
              block |-> Pop(block_name_list
                            \o <<block_name, KeyBlockNames("P4")[key_block_2]>>, i),
              data |-> Pop(datafile_list
                           \o <<SubSeq(data, HalfKeyBytes + 1, Len(data)),
                                SubSeq(data, 1, HalfKeyBytes)>>, i),
              purpose |-> Pop(keypurpose_list
                              \o <<"XTS_AES_256_KEY_1", "XTS_AES_256_KEY_2">>, i)]

P4_split_512_bit_key(ef, block_name_list, datafile_list, keypurpose_list) ==
    LET i == IndexOfWide(keypurpose_list)
        block_name == block_name_list[i]
        block == get_index_block_by_name("P4", block_name)
        data == datafile_list[i]
        key_block_2 == P4_get_next_key_block(ef, block, block_name_list)
        lists(err) == [err |-> err, block |-> block_name_list, data |-> datafile_list,
                       purpose |-> keypurpose_list]
    IN  IF i > Len(block_name_list) THEN lists("index_error")
        ELSE IF block = 0 THEN lists("type_error")
        ELSE IF i > Len(datafile_list) THEN lists("index_error")
        ELSE IF Len(data) # WideKeyBytes THEN lists("wide_size")
        ELSE IF key_block_2 = 0 THEN lists("no_free_block")
        ELSE [err |-> "",
              block |-> Pop(block_name_list
                            \o <<block_name, KeyBlockNames("P4")[key_block_2]>>, i),
              data |-> Pop(datafile_list
                           \o <<SubSeq(data, 1, HalfKeyBytes),
                                SubSeq(data, HalfKeyBytes + 1, Len(data))>>, i),
              purpose |-> Pop(keypurpose_list
                              \o <<"XTS_AES_256_KEY_1", "XTS_AES_256_KEY_2">>, i)]

P4_entry(st, row, i, a) ==
    LET b == get_index_block_by_name("P4", row.block_name)
        loaded == IF ~a.digest_given /\ row.keypurpose = "ECDSA_KEY"
                  THEN EcdsaPad(row.datafile) ELSE row.datafile
        data == ReverseFor(row.keypurpose, loaded)
        read_protect == ReadProtect(row.keypurpose, a.no_read_protect)
        write_protect == ~a.no_write_protect
        s0 == BeginEntry(st, b, loaded, row.keypurpose)
        s1 == StageKey(s0, b, data, i)
        s2 == IF Raised(s1) THEN s1 ELSE StagePurpose(s1, b, row.keypurpose, i)
    IN  IF b = 0 THEN Raise(st, "unknown_block", i)
        ELSE IF SizeMismatch(data, num_bytes("P4", "NONE")) THEN Raise(s0, "size", i)
        ELSE IF Raised(s2) THEN s2
        ELSE StageWriteProtect(
                 StageReadProtect(StageKpWriteProtect(s2, b), b, read_protect),
                 b, write_protect)

RECURSIVE P4_loop(_, _, _, _)
P4_loop(st, rows, i, a) ==
    IF i > Len(rows) THEN st
    ELSE LET r == P4_entry(st, rows[i], i, a)
         IN  IF Raised(r) THEN r ELSE P4_loop(r, rows, i + 1, a)

\* C40 variant: the lists are rebuilt as the split rebuilds them, the first
\* entry moved to the end, also when the batch holds no wide key
P4_lists_first_entry_last(ef, a) ==
    LET datafile_list == IF a.digest_given THEN a.digest ELSE Open(Truncate(a.keyfile))
        block_name_list == Truncate(a.block)
        keypurpose_list == Truncate(a.keypurpose)
        Rebuilt(l) == IF Len(l) = 0 THEN l ELSE Pop(l, 1) \o <<l[1]>>
    IN  IF \E j \in DOMAIN keypurpose_list : keypurpose_list[j] = "XTS_AES_256_KEY"
        THEN P4_split_512_bit_key(ef, block_name_list, datafile_list, keypurpose_list)
        ELSE [err |-> "", block |-> Rebuilt(block_name_list),
              data |-> Rebuilt(datafile_list), purpose |-> Rebuilt(keypurpose_list)]

\* the three lists burn_key works on: the truncated arguments, split when
\* they hold a wide key
P4_lists(ef, a) ==
    LET datafile_list == IF a.digest_given THEN a.digest ELSE Open(Truncate(a.keyfile))
        block_name_list == Truncate(a.block)
        keypurpose_list == Truncate(a.keypurpose)
    IN  IF \E j \in DOMAIN keypurpose_list : keypurpose_list[j] = "XTS_AES_256_KEY"
        THEN P4_split_512_bit_key(ef, block_name_list, datafile_list, keypurpose_list)
        ELSE [err |-> "", block |-> block_name_list, data |-> datafile_list,
              purpose |-> keypurpose_list]

P4_burn_key(ef, a, batch) ==
    LET l == P4_lists(ef, a)
        s == P4_loop(St0(ef), Zip3(l.block, l.data, l.purpose), 1, a)
        pre_err == PreChecks(l.block, l.data, l.purpose)
    IN  IF l.err # "" THEN Raise(St0(ef), l.err, 0)
        ELSE IF pre_err # "" THEN Raise(St0(ef), pre_err, 0)
        ELSE IF Raised(s) THEN s
        ELSE IF Len(l.block) = 0 THEN Raise(s, "unbound_local", 0)
        ELSE BurnAllStep(s, batch)

P4_burn_key_digest(ef, a, batch) ==
    LET datafile_list == Truncate(a.keyfile)
        block_list == Truncate(a.block)
        d == digest_pass("P4", block_list, datafile_list, 1)
    IN  IF d.err # "" THEN Raise(St0(ef), d.err, d.at)
        ELSE P4_burn_key(ef, DigestArgs(a, block_list, d.list), batch)

-----------------------------------------------------------------------------
(* ESP32 *)

\* C11 variant: only the flash encryption key is reversed
Esp32NamedFlashEncryption(block_name) == block_name \in {"flash_encryption"}

\* block_name in ("flash_encryption", "secure_boot_v1")
Esp32NamedForReverse(block_name) == block_name \in {"flash_encryption", "secure_boot_v1"}

Esp32_entry(st, row, i, a, scheme) ==
    LET b == get_index_block_by_name("ESP32", row.block_name)
        data == IF Esp32NamedForReverse(row.block_name)
                THEN Reverse(row.datafile) ELSE row.datafile
        s0 == BeginEntry(st, b, row.datafile, "")
        s1 == StageKey(s0, b, data, i)
    IN  IF b = 0 THEN Raise(st, "unknown_block", i)
        ELSE IF SizeMismatch(data, num_bytes("ESP32", scheme)) THEN Raise(s0, "size", i)
        ELSE IF Raised(s1) THEN s1
        ELSE StageWriteProtect(
                 StageReadProtect(s1, b,
                     Esp32NamedForReverse(row.block_name) /\ ~a.no_write_protect),
                 b, ~a.no_write_protect)

RECURSIVE Esp32_loop(_, _, _, _, _)
Esp32_loop(st, rows, i, a, scheme) ==
    IF i > Len(rows) THEN st
    ELSE LET r == Esp32_entry(st, rows[i], i, a, scheme)
         IN  IF Raised(r) THEN r ELSE Esp32_loop(r, rows, i + 1, a, scheme)

\* burn_key(block, keyfile, no_protect_key, ...): no_protect_key is held in
\* the no_write_protect field of the arguments
Esp32_burn_key(ef, a, batch, scheme) ==
    LET datafile_list == Open(Truncate(a.keyfile))
        block_name_list == Truncate(a.block)
        s == Esp32_loop(St0(ef), Zip3(block_name_list, datafile_list, block_name_list),
                        1, a, scheme)
    IN  IF HasDuplicate(block_name_list) THEN Raise(St0(ef), "duplicate", 0)
        ELSE IF Len(block_name_list) # Len(datafile_list) THEN Raise(St0(ef), "count", 0)
        ELSE IF Raised(s) THEN s
        ELSE BurnAllStep(s, batch)

\* efuse = self.efuses["BLOCK2"]
Esp32DigestBlock == get_index_block_by_name("ESP32", "BLOCK2")

\* C19 variant: revision v3.0 itself is refused
Esp32_burn_key_digest_above_min(ef, a, batch, scheme, revision) ==
    LET digest == digest_sbv2_public_key(a.keyfile[1])
        s1 == StageKey(BeginEntry(St0(ef), Esp32DigestBlock, digest, ""),
                       Esp32DigestBlock, digest, 0)
    IN  IF scheme = "34" THEN Raise(St0(ef), "coding_scheme", 0)
        ELSE IF revision <= MinSbv2Revision THEN Raise(St0(ef), "revision", 0)
        ELSE IF SizeMismatch(digest, num_bytes("ESP32", scheme))
        THEN Raise(St0(ef), "digest_size", 0)
        ELSE IF Raised(s1) THEN s1
        ELSE BurnAllStep(StageWriteProtect(s1, Esp32DigestBlock, ~a.no_write_protect), batch)

\* C18 variant: the chip revision is checked before the coding scheme
Esp32_burn_key_digest_revision_first(ef, a, batch, scheme, revision) ==
    LET digest == digest_sbv2_public_key(a.keyfile[1])
        s1 == StageKey(BeginEntry(St0(ef), Esp32DigestBlock, digest, ""),
                       Esp32DigestBlock, digest, 0)
    IN  IF revision < MinSbv2Revision THEN Raise(St0(ef), "revision", 0)
        ELSE IF scheme = "34" THEN Raise(St0(ef), "coding_scheme", 0)
        ELSE IF SizeMismatch(digest, num_bytes("ESP32", scheme))
        THEN Raise(St0(ef), "digest_size", 0)
        ELSE IF Raised(s1) THEN s1
        ELSE BurnAllStep(StageWriteProtect(s1, Esp32DigestBlock, ~a.no_write_protect), batch)

\* C32 variant: the digest is read-protected along with the write protection
Esp32_burn_key_digest_read_protected(ef, a, batch, scheme, revision) ==
    LET digest == digest_sbv2_public_key(a.keyfile[1])
        s1 == StageKey(BeginEntry(St0(ef), Esp32DigestBlock, digest, ""),
                       Esp32DigestBlock, digest, 0)
    IN  IF scheme = "34" THEN Raise(St0(ef), "coding_scheme", 0)
        ELSE IF revision < MinSbv2Revision THEN Raise(St0(ef), "revision", 0)
        ELSE IF SizeMismatch(digest, num_bytes("ESP32", scheme))
        THEN Raise(St0(ef), "digest_size", 0)
        ELSE IF Raised(s1) THEN s1
        ELSE BurnAllStep(
                 StageWriteProtect(
                     StageReadProtect(s1, Esp32DigestBlock, ~a.no_write_protect),
                     Esp32DigestBlock, ~a.no_write_protect),
                 batch)

Esp32_burn_key_digest(ef, a, batch, scheme, revision) ==
    LET digest == digest_sbv2_public_key(a.keyfile[1])
        s1 == StageKey(BeginEntry(St0(ef), Esp32DigestBlock, digest, ""),
                       Esp32DigestBlock, digest, 0)
    IN  IF scheme = "34" THEN Raise(St0(ef), "coding_scheme", 0)
        ELSE IF revision < MinSbv2Revision THEN Raise(St0(ef), "revision", 0)
        ELSE IF SizeMismatch(digest, num_bytes("ESP32", scheme))
        THEN Raise(St0(ef), "digest_size", 0)
        ELSE IF Raised(s1) THEN s1
        ELSE BurnAllStep(StageWriteProtect(s1, Esp32DigestBlock, ~a.no_write_protect), batch)

\* C33 variant: whatever fuse is named, XPD_SDIO_FORCE is the one saved
SaveBitForce(st, fld) ==
    Log([st EXCEPT !.ef.pending["sdio_force"] = 1], Ev("save_sdio_force", 0, <<>>, ""))

\* sdio_force.save(1) and the like
SaveBit(st, fld) ==
    Log([st EXCEPT !.ef.pending[fld] = 1], Ev("save_" \o fld, 0, <<>>, ""))

\* C37 variant: 3.3V saves XPD_SDIO_TIEH without XPD_SDIO_REG
Esp32_set_flash_voltage_reg_for_low(ef, voltage, batch) ==
    LET s1 == SaveBit(St0(ef), "sdio_force")
        s2 == IF voltage = "1.8V" THEN SaveBit(s1, "sdio_reg") ELSE s1
        s3 == IF voltage = "3.3V" THEN SaveBit(s2, "sdio_tieh") ELSE s2
    IN  IF voltage = "OFF" /\ ef.burned.sdio_reg # 0 THEN Raise(St0(ef), "sdio_reg", 0)
        ELSE IF voltage = "1.8V" /\ ef.burned.sdio_tieh # 0 THEN Raise(St0(ef), "sdio_tieh", 0)
        ELSE BurnAllStep(s3, batch)

\* C24 variant: any request is refused once XPD_SDIO_FORCE is burned
Esp32_set_flash_voltage_once(ef, voltage, batch) ==
    LET s1 == SaveBit(St0(ef), "sdio_force")
        s2 == IF voltage # "OFF" THEN SaveBit(s1, "sdio_reg") ELSE s1
        s3 == IF voltage = "3.3V" THEN SaveBit(s2, "sdio_tieh") ELSE s2
    IN  IF voltage = "OFF" /\ ef.burned.sdio_reg # 0 THEN Raise(St0(ef), "sdio_reg", 0)
        ELSE IF voltage = "1.8V" /\ ef.burned.sdio_tieh # 0 THEN Raise(St0(ef), "sdio_tieh", 0)
        ELSE IF ef.burned.sdio_force # 0 THEN Raise(St0(ef), "sdio_reg", 0)
        ELSE BurnAllStep(s3, batch)

\* C23 variant: 1.8V is not refused when XPD_SDIO_TIEH is burned
Esp32_set_flash_voltage_unchecked_tieh(ef, voltage, batch) ==
    LET s1 == SaveBit(St0(ef), "sdio_force")
        s2 == IF voltage # "OFF" THEN SaveBit(s1, "sdio_reg") ELSE s1
        s3 == IF voltage = "3.3V" THEN SaveBit(s2, "sdio_tieh") ELSE s2
    IN  IF voltage = "OFF" /\ ef.burned.sdio_reg # 0 THEN Raise(St0(ef), "sdio_reg", 0)
        ELSE BurnAllStep(s3, batch)

Esp32_set_flash_voltage(ef, voltage, batch) ==
    LET s1 == SaveBit(St0(ef), "sdio_force")
        s2 == IF voltage # "OFF" THEN SaveBit(s1, "sdio_reg") ELSE s1
        s3 == IF voltage = "3.3V" THEN SaveBit(s2, "sdio_tieh") ELSE s2
    IN  IF voltage = "OFF" /\ ef.burned.sdio_reg # 0 THEN Raise(St0(ef), "sdio_reg", 0)
        ELSE IF voltage = "1.8V" /\ ef.burned.sdio_tieh # 0 THEN Raise(St0(ef), "sdio_tieh", 0)
        ELSE BurnAllStep(s3, batch)

-----------------------------------------------------------------------------
(* The arguments the commands are run with *)

Args(op, block, keyfile, keypurpose, nwp, nrp) ==
    [op |-> op, block |-> block, keyfile |-> keyfile, keypurpose |-> keypurpose,
     no_write_protect |-> nwp, no_read_protect |-> nrp,
     digest_given |-> FALSE, digest |-> <<>>, voltage |-> ""]

NoCmd == Args("", <<>>, <<>>, <<>>, FALSE, FALSE)

Canon(c, b) == KeyBlockNames(c)[b]
AliasOf(c, b) == CHOOSE x \in KeyBlockAlias(c)[b] : TRUE
BadName == "BLOCK_KEY9"

\* key file and purpose of an entry
FilePurpose(c) ==
    {<<"key_a", "XTS_AES_128_KEY">>, <<"key_a", "HMAC_UP">>, <<"key_a", "USER">>,
     <<"key_b", "XTS_AES_128_KEY">>, <<"short31", "HMAC_UP">>}
    \cup (IF c \in {"H2", "H21", "P4"}
          THEN {<<"key_a", "ECDSA_KEY">>, <<"raw24", "ECDSA_KEY">>} ELSE {})
    \cup (IF c = "P4"
          THEN {<<"wide64", "XTS_AES_256_KEY">>, <<"key_a", "XTS_AES_256_KEY">>} ELSE {})

\* entries that come first and second in batches of two
FirstRows(c) ==
    {<<Canon(c, 1), "key_a", "XTS_AES_128_KEY">>, <<Canon(c, 1), "short31", "HMAC_UP">>,
     <<Canon(c, 2), "key_a", "HMAC_UP">>, <<BadName, "key_a", "HMAC_UP">>}
    \cup (IF c = "P4"
          THEN {<<Canon(c, 1), "wide64", "XTS_AES_256_KEY">>,
                <<AliasOf(c, 1), "wide64", "XTS_AES_256_KEY">>} ELSE {})

SecondRows(c) ==
    {<<Canon(c, 1), "key_a", "XTS_AES_128_KEY">>, <<AliasOf(c, 1), "key_b", "HMAC_UP">>,
     <<Canon(c, 3), "key_a", "USER">>, <<BadName, "key_a", "HMAC_UP">>}

BurnKeyArgs(c) ==
    {Args("burn_key", <<Canon(c, 1)>>, <<fp[1]>>, <<fp[2]>>, nwp, nrp) :
        fp \in FilePurpose(c), nwp \in BOOLEAN, nrp \in BOOLEAN}
    \cup {Args("burn_key", <<n>>, <<"key_a">>, <<"XTS_AES_128_KEY">>, FALSE, FALSE) :
        n \in {AliasOf(c, 1), Canon(c, 2), Canon(c, NumKeyBlocks), BadName}}
    \cup (IF c \in {"H2", "H21", "P4"}
          THEN {Args("burn_key", <<Canon(c, 1)>>, <<"short31">>, <<"ECDSA_KEY">>, FALSE, FALSE)}
          ELSE {})
    \cup (IF c = "P4"
          THEN {Args("burn_key", <<n>>, <<"wide64">>, <<"XTS_AES_256_KEY">>, FALSE, FALSE) :
                    n \in {AliasOf(c, 1), Canon(c, NumKeyBlocks), BadName}}
               \cup {Args("burn_key", <<Canon(c, 1), None>>, <<"wide64", None>>,
                          <<"HMAC_UP", "XTS_AES_256_KEY">>, FALSE, FALSE),
                     Args("burn_key", <<Canon(c, 1), Canon(c, 2)>>, <<"wide64", "wide64">>,
                          <<"XTS_AES_256_KEY", "XTS_AES_256_KEY">>, FALSE, FALSE),
                     Args("burn_key", <<Canon(c, 1), Canon(c, NumKeyBlocks)>>,
                          <<"wide64", "key_a">>,
                          <<"XTS_AES_256_KEY", "XTS_AES_256_KEY">>, FALSE, FALSE)}
          ELSE {})
    \cup {Args("burn_key", <<r[1], q[1]>>, <<r[2], q[2]>>, <<r[3], q[3]>>, FALSE, FALSE) :
        r \in FirstRows(c), q \in SecondRows(c)}
    \cup {Args("burn_key", <<Canon(c, 1), Canon(c, 2)>>, <<"key_a", None>>,
               <<"XTS_AES_128_KEY", "HMAC_UP">>, FALSE, FALSE),
          Args("burn_key", <<Canon(c, 1), None>>, <<"key_a", "key_a">>,
               <<"XTS_AES_128_KEY", "HMAC_UP">>, FALSE, FALSE),
          Args("burn_key", <<Canon(c, 1), Canon(c, 1)>>, <<"key_a", "key_a">>,
               <<"XTS_AES_128_KEY", None>>, FALSE, FALSE),
          Args("burn_key", <<None>>, <<None>>, <<None>>, FALSE, FALSE),
          Args("burn_key", <<None, Canon(c, 1)>>, <<None, "key_a">>,
               <<None, "XTS_AES_128_KEY">>, FALSE, FALSE)}

BurnKeyDigestArgs(c) ==
    {Args("burn_key_digest", <<n>>, <<"pub_a">>, <<"SECURE_BOOT_DIGEST0">>, FALSE, FALSE) :
        n \in {Canon(c, 1), AliasOf(c, 1), BadName}}
    \cup {Args("burn_key_digest", <<Canon(c, 1)>>, <<"pub_a">>, <<"SECURE_BOOT_DIGEST0">>,
               TRUE, TRUE)}
    \cup {Args("burn_key_digest", <<n, m>>, <<"pub_a", "pub_a">>,
               <<"SECURE_BOOT_DIGEST0", "SECURE_BOOT_DIGEST0">>, FALSE, FALSE) :
        n \in {Canon(c, 1), BadName}, m \in {Canon(c, 1), Canon(c, 2), BadName}}
    \cup {Args("burn_key_digest", <<Canon(c, 1), Canon(c, 1)>>, <<"pub_a", None>>,
               <<"SECURE_BOOT_DIGEST0", "SECURE_BOOT_DIGEST0">>, FALSE, FALSE)}

Esp32Names ==
    {"BLOCK1", "flash_encryption", "BLOCK2", "secure_boot_v1", "secure_boot_v2", "BLOCK3",
     BadName}

Esp32BurnKeyArgs ==
    {Args("burn_key", <<n>>, <<"key_a">>, <<>>, npk, FALSE) :
        n \in Esp32Names, npk \in BOOLEAN}
    \cup {Args("burn_key", <<n>>, <<f>>, <<>>, FALSE, FALSE) :
        n \in {"BLOCK1", "flash_encryption"}, f \in {"key_b", "short31", "raw24"}}
    \cup {Args("burn_key", <<n, m>>, <<"key_a", f>>, <<>>, FALSE, FALSE) :
        n \in {"BLOCK1", "flash_encryption", BadName},
        m \in {"BLOCK1", "BLOCK2", BadName},
        f \in {"key_a", None}}

Esp32BurnKeyDigestArgs ==
    {Args("burn_key_digest", <<>>, <<"pub_a">>, <<>>, npk, FALSE) : npk \in BOOLEAN}

SetFlashVoltageArgs ==
    {[Args("set_flash_voltage", <<>>, <<>>, <<>>, FALSE, FALSE) EXCEPT !.voltage = v] :
        v \in {"1.8V", "3.3V", "OFF"}}

-----------------------------------------------------------------------------
(* The state machine *)

\* the image read from a chip no command has burned yet
Blank(c, scheme) ==
    [burned |-> BlankImage(num_bytes(c, scheme)), pending |-> BlankImage(num_bytes(c, scheme))]
NoFirst == [rep |-> FALSE, out |-> Ok, pre |-> <<>>]

InitChip ==
    /\ chip \in Chips
    /\ chip_version \in (IF chip = "H2" THEN {MaxHwKVersion, MaxHwKVersion + 1} ELSE {0})
    /\ chip_revision \in (IF chip = "ESP32" THEN {MinSbv2Revision - 1, MinSbv2Revision}
                          ELSE {0})
    /\ coding_scheme \in (IF chip = "ESP32" THEN {"NONE", "34"} ELSE {"NONE"})
    /\ batch_mode \in BOOLEAN
    /\ efuses = Blank(chip, coding_scheme)
    /\ phase = "idle"
    /\ cmd = NoCmd
    /\ trace = <<>>
    /\ out = Ok
    /\ pre = efuses
    /\ first = NoFirst
    /\ ncmds = 0

\* a chip whose link works
Init == InitChip /\ transport = "ok"

\* the arguments a command of the set A may run with now: any of them when the
\* last command has returned, those of the command that just ended when that
\* command is invoked again
Invocations(A) ==
    IF phase = "idle" THEN A
    ELSE IF first.rep THEN {}
    ELSE {cmd} \cap A

\* the command ran with the arguments a and ended as r says
Finish(a, r) ==
    /\ phase' = "done"
    /\ cmd' = a
    /\ efuses' = r.ef
    /\ trace' = r.trace
    /\ out' = r.out
    /\ pre' = efuses
    /\ first' = IF phase = "done" THEN [rep |-> TRUE, out |-> out, pre |-> pre] ELSE NoFirst
    /\ ncmds' = ncmds + 1
    /\ UNCHANGED <<config, batch_mode>>

Start(c) == chip = c /\ ncmds < MaxCmds

C6BurnKey ==
    Start("C6") /\ \E a \in Invocations(BurnKeyArgs("C6")) :
        Finish(a, C6_burn_key(efuses, a, batch_mode))
H2BurnKey ==
    Start("H2") /\ \E a \in Invocations(BurnKeyArgs("H2")) :
        Finish(a, H2_burn_key(efuses, a, batch_mode))
H21BurnKey ==
    Start("H21") /\ \E a \in Invocations(BurnKeyArgs("H21")) :
        Finish(a, H21_burn_key(efuses, a, batch_mode))
P4BurnKey ==
    Start("P4") /\ \E a \in Invocations(BurnKeyArgs("P4")) :
        Finish(a, P4_burn_key(efuses, a, batch_mode))
Esp32BurnKey ==
    Start("ESP32") /\ \E a \in Invocations(Esp32BurnKeyArgs) :
        Finish(a, Esp32_burn_key(efuses, a, batch_mode, coding_scheme))

C6BurnKeyDigest ==
    Start("C6") /\ \E a \in Invocations(BurnKeyDigestArgs("C6")) :
        Finish(a, C6_burn_key_digest(efuses, a, batch_mode))
H2BurnKeyDigest ==
    Start("H2") /\ \E a \in Invocations(BurnKeyDigestArgs("H2")) :
        Finish(a, H2_burn_key_digest(efuses, a, batch_mode))
H21BurnKeyDigest ==
    Start("H21") /\ \E a \in Invocations(BurnKeyDigestArgs("H21")) :
        Finish(a, H21_burn_key_digest(efuses, a, batch_mode))
P4BurnKeyDigest ==
    Start("P4") /\ \E a \in Invocations(BurnKeyDigestArgs("P4")) :
        Finish(a, P4_burn_key_digest(efuses, a, batch_mode))
Esp32BurnKeyDigest ==
    Start("ESP32") /\ \E a \in Invocations(Esp32BurnKeyDigestArgs) :
        Finish(a, Esp32_burn_key_digest(efuses, a, batch_mode, coding_scheme, chip_revision))

Esp32SetFlashVoltage ==
    Start("ESP32") /\ \E a \in Invocations(SetFlashVoltageArgs) :
        Finish(a, Esp32_set_flash_voltage(efuses, a.voltage, batch_mode))

\* the command returns to its caller
Return ==
    /\ phase = "done"
    /\ phase' = "idle"
    /\ cmd' = NoCmd
    /\ trace' = <<>>
    /\ out' = Ok
    /\ pre' = efuses
    /\ first' = NoFirst
    /\ UNCHANGED <<config, batch_mode, efuses, ncmds>>

\* the batch of commands ends: burn_all() burns what the commands staged
EndBatch ==
    /\ phase = "idle" /\ batch_mode
    /\ efuses' = Burn(efuses)
    /\ batch_mode' = FALSE
    /\ pre' = efuses'
    /\ UNCHANGED <<config, phase, cmd, trace, out, first, ncmds>>

Next ==
    \/ C6BurnKey \/ H2BurnKey \/ H21BurnKey \/ P4BurnKey \/ Esp32BurnKey
    \/ C6BurnKeyDigest \/ H2BurnKeyDigest \/ H21BurnKeyDigest \/ P4BurnKeyDigest
    \/ Esp32BurnKeyDigest \/ Esp32SetFlashVoltage
    \/ Return \/ EndBatch

Spec == Init /\ [][Next]_vars

\* the same commands on a chip whose link fails when it is asked to burn
InitTransportFails == InitChip /\ transport \in {"fail_unburned", "fail_burned"}
SpecTransportFails == InitTransportFails /\ [][Next]_vars

\* The four classes that share the burn algorithm, each run on the same image
\* with the same descriptor answers: the tables of the model are those of one
\* descriptor, and every command of a session is run by any of the classes.
ClassStart == phase = "idle" /\ ncmds < MaxCmds
ClassBurnKeyArgs == BurnKeyArgs("H2")
ClassBurnKeyDigestArgs == BurnKeyDigestArgs("H2")

C6ClassBurnKey ==
    ClassStart /\ \E a \in ClassBurnKeyArgs :
        Finish(a, C6_burn_key(efuses, a, batch_mode))
H2ClassBurnKey ==
    ClassStart /\ \E a \in ClassBurnKeyArgs :
        Finish(a, H2_burn_key(efuses, a, batch_mode))
H21ClassBurnKey ==
    ClassStart /\ \E a \in ClassBurnKeyArgs :
        Finish(a, H21_burn_key(efuses, a, batch_mode))
P4ClassBurnKey ==
    ClassStart /\ \E a \in ClassBurnKeyArgs :
        Finish(a, P4_burn_key(efuses, a, batch_mode))
C6ClassBurnKeyDigest ==
    ClassStart /\ \E a \in ClassBurnKeyDigestArgs :
        Finish(a, C6_burn_key_digest(efuses, a, batch_mode))
H2ClassBurnKeyDigest ==
    ClassStart /\ \E a \in ClassBurnKeyDigestArgs :
        Finish(a, H2_burn_key_digest(efuses, a, batch_mode))
H21ClassBurnKeyDigest ==
    ClassStart /\ \E a \in ClassBurnKeyDigestArgs :
        Finish(a, H21_burn_key_digest(efuses, a, batch_mode))
P4ClassBurnKeyDigest ==
    ClassStart /\ \E a \in ClassBurnKeyDigestArgs :
        Finish(a, P4_burn_key_digest(efuses, a, batch_mode))

InitClasses == Init /\ chip = "H2"
NextClasses ==
    \/ C6ClassBurnKey \/ H2ClassBurnKey \/ H21ClassBurnKey \/ P4ClassBurnKey
    \/ C6ClassBurnKeyDigest \/ H2ClassBurnKeyDigest \/ H21ClassBurnKeyDigest
    \/ P4ClassBurnKeyDigest
    \/ Return \/ EndBatch
SpecClasses == InitClasses /\ [][NextClasses]_vars

-----------------------------------------------------------------------------
(* The calls of the command that just ended, read from its trace *)

Done == phase = "done"
Failed == out.status = "raise"
NewChip == chip \in {"C6", "H2", "H21", "P4"}
KeyCommand == cmd.op \in {"burn_key", "burn_key_digest"}
BurnAllCalls == {k \in DOMAIN trace : trace[k].op = "burn_all"}

\* the loop iterations that got hold of their block
Entries == {k \in DOMAIN trace : trace[k].op = "entry"}

\* the last call of the iteration that starts at k
EntryEnd(k) ==
    LET later == {j \in DOMAIN trace : j > k /\ trace[j].op \in {"entry", "burn_all"}}
    IN  IF later = {} THEN Len(trace)
        ELSE (CHOOSE j \in later : \A x \in later : j <= x) - 1

Calls(k, op) == {j \in (k + 1)..EntryEnd(k) : trace[j].op = op}

\* the iteration ran to its end
Completed(k) == ~Failed \/ EntryEnd(k) < Len(trace)

Known(name) == get_index_block_by_name(chip, name) # 0
Range(l) == {l[i] : i \in DOMAIN l}

\* what one key block holds in one image
BlockState(img, b) ==
    [key |-> img.key[b], kp |-> img.kp[b], rd |-> img.rd[b], wr |-> img.wr[b],
     kpwr |-> img.kpwr[b]]
BlankBlock(img, b) ==
    BlockState(img, b) = BlockState(BlankImage(num_bytes(chip, coding_scheme)), b)

-----------------------------------------------------------------------------
(* C1 *)

\* C1: burn_key, burn_key_digest (every chip) and set_flash_voltage (ESP32) call
\* burn_all(check_batch_mode=True) only at their end: a command that raises has
\* not called it, and a command that returns has called it exactly once, as its
\* last call, after every entry of the batch was staged.
C1_BurnAllOnceAtEnd ==
    (Done /\ cmd.op \in {"burn_key", "burn_key_digest", "set_flash_voltage"}) =>
        /\ Failed => BurnAllCalls = {}
        /\ ~Failed => /\ BurnAllCalls = {Len(trace)}
                      /\ Len(trace) >= 2
                      /\ (cmd.op = "burn_key" =>
                            Cardinality(Entries) >= Len(Truncate(cmd.block)))

C1_Witness ==
    /\ Done /\ cmd.op = "burn_key" /\ out.status = "ok"
    /\ Cardinality(Entries) = 2 /\ BurnAllCalls = {Len(trace)}

-----------------------------------------------------------------------------
(* C2 *)

\* C2: on C6, H2, H21 and P4, when burn_key raises because the key-purpose field
\* is write-protected and another purpose is requested, the pending state of the
\* block of that entry (staged key data included) is what it was before the call.
C2_RefusedPurposeStagesNothing ==
    (Done /\ NewChip /\ cmd.op = "burn_key" /\ out.err = "kp_write_protected") =>
        \A k \in Entries : EntryEnd(k) = Len(trace) =>
            BlockState(efuses.pending, trace[k].blk) = BlockState(pre.pending, trace[k].blk)

-----------------------------------------------------------------------------
(* C3 *)

\* C3: on C6, H2, H21 and P4 every entry whose key data was staged has its
\* requested purpose compared with the burned purpose of its block: equal, no
\* purpose is staged; different and the purpose field writeable, the requested
\* purpose is staged; different and the field write-protected, the command raises
\* there and burn_all is not called.
C3_PurposeAgainstBurned ==
    (Done /\ NewChip /\ KeyCommand) =>
        \A k \in Entries : Calls(k, "save_key") # {} =>
            LET b == trace[k].blk
                staged == Calls(k, "save_kp")
                refused == out.err = "kp_write_protected" /\ EntryEnd(k) = Len(trace)
            IN  IF pre.burned.kp[b] = PurposeCode(trace[k].kp)
                THEN staged = {} /\ ~refused
                ELSE IF ~pre.burned.kpwr[b]
                THEN /\ staged # {}
                     /\ \A j \in staged : trace[j].blk = b /\ trace[j].kp = trace[k].kp
                     /\ ~refused
                ELSE staged = {} /\ refused /\ BurnAllCalls = {}

\* the pending purpose already is the requested one, the burned one is not, and
\* the purpose is staged again
C3_Witness ==
    /\ Done /\ NewChip /\ cmd.op = "burn_key"
    /\ \E k \in Entries :
        /\ pre.pending.kp[trace[k].blk] = PurposeCode(trace[k].kp)
        /\ pre.burned.kp[trace[k].blk] # PurposeCode(trace[k].kp)
        /\ Calls(k, "save_kp") # {}

-----------------------------------------------------------------------------
(* C4 *)

HasWide == chip = "P4" /\ "XTS_AES_256_KEY" \in Range(Truncate(cmd.keypurpose))
CountsDiffer ==
    \/ Len(Truncate(cmd.block)) # Len(Truncate(cmd.keyfile))
    \/ chip # "ESP32" /\ Len(Truncate(cmd.block)) # Len(Truncate(cmd.keypurpose))
ListErrors == {"duplicate", "count"}
EntryErrors == {"unknown_block", "size"}
SplitErrors == {"index_error", "type_error", "wide_size", "no_free_block"}

\* C4 as amended: burn_key of every chip reports a duplicate block name before
\* unequal counts, and both before any check of an entry; the entries are
\* checked in batch order, the block name of an entry before its payload size.
\* On P4 a batch that holds a wide key reports the failure of the split before
\* all of these, and burn_key_digest of C6, H2, H21 and P4 reports an unknown
\* block name before duplicates and counts.
C4_ErrorOrder ==
    /\ (Done /\ cmd.op = "burn_key" /\ ~HasWide) =>
        /\ HasDuplicate(Truncate(cmd.block)) => out.err = "duplicate"
        /\ (~HasDuplicate(Truncate(cmd.block)) /\ CountsDiffer) => out.err = "count"
        /\ out.err = "unknown_block" =>
              /\ Cardinality(Entries) = out.at - 1
              /\ ~Known(Truncate(cmd.block)[out.at])
        /\ out.err = "size" =>
              /\ Cardinality(Entries) = out.at
              /\ Known(Truncate(cmd.block)[out.at])
    /\ (Done /\ cmd.op = "burn_key" /\ HasWide) =>
        /\ out.err \in SplitErrors <=> P4_lists(pre, cmd).err # ""
        /\ out.err \in SplitErrors => trace = <<>>
        /\ out.err \in {"count"} \cup EntryErrors => ~HasDuplicate(P4_lists(pre, cmd).block)
    /\ (Done /\ cmd.op = "burn_key_digest" /\ NewChip) =>
        /\ out.err \in ListErrors =>
              \A i \in 1..Min(Len(Truncate(cmd.block)), Len(Truncate(cmd.keyfile))) :
                  Known(Truncate(cmd.block)[i])
        /\ (\E i \in 1..Min(Len(Truncate(cmd.block)), Len(Truncate(cmd.keyfile))) :
                ~Known(Truncate(cmd.block)[i])) => out.err = "unknown_block"

\* a batch with a duplicate name that is an unknown name as well
C4_Witness ==
    /\ Done /\ cmd.op = "burn_key" /\ ~HasWide
    /\ HasDuplicate(Truncate(cmd.block))
    /\ \E i \in DOMAIN Truncate(cmd.block) : ~Known(Truncate(cmd.block)[i])
    /\ out.err = "duplicate"

\* C4 as claimed: a batch with a duplicate block name fails with the
\* duplicate-name error, whatever else is wrong with it.
C4_DuplicateReportedFirst ==
    (Done /\ KeyCommand /\ HasDuplicate(Truncate(cmd.block))) => out.err = "duplicate"

-----------------------------------------------------------------------------
(* C5 *)

\* C5: an entry whose payload length is not the bit_len // 8 of its block makes
\* the command raise before the key data of that entry is staged, and burn_all
\* is not called.
C5_SizeMismatchStagesNothing ==
    (Done /\ KeyCommand) =>
        /\ \A k \in Entries :
              Len(trace[k].data) # num_bytes(chip, coding_scheme) =>
                  /\ Failed /\ out.err = "size"
                  /\ k = Len(trace)
                  /\ BurnAllCalls = {}
        /\ \A j \in DOMAIN trace :
              trace[j].op = "save_key" =>
                  Len(trace[j].data) = num_bytes(chip, coding_scheme)

C5_Witness ==
    /\ Done /\ cmd.op = "burn_key" /\ out.err = "size"
    /\ \E k \in Entries : Len(trace[k].data) < num_bytes(chip, coding_scheme)
    /\ efuses = pre

-----------------------------------------------------------------------------
(* C6 *)

\* C6: once burn_key has run and burned on the unburned blocks it names, the
\* same burn_key run again leaves the eFuse state the first run left: it stages
\* nothing new and burns nothing. Stated for keys that the first run leaves
\* readable and writeable, so that no protection stands in the second run's way.
C6_SecondRunChangesNothing ==
    (/\ Done /\ cmd.op = "burn_key" /\ first.rep /\ first.out.status = "ok"
     /\ cmd.no_write_protect /\ cmd.no_read_protect
     /\ \A i \in DOMAIN Truncate(cmd.block) :
            /\ Known(Truncate(cmd.block)[i])
            /\ BlankBlock(first.pre.burned,
                          get_index_block_by_name(chip, Truncate(cmd.block)[i]))
            /\ BlankBlock(first.pre.pending,
                          get_index_block_by_name(chip, Truncate(cmd.block)[i])))
    => efuses = pre

-----------------------------------------------------------------------------
(* C7 *)

\* C7: on C6, H2, H21 and P4 an entry that ran to its end has read protection
\* staged for its block exactly when need_rd_protect holds of its purpose and
\* no_read_protect is false.
C7_ReadProtectIff ==
    (Done /\ NewChip /\ KeyCommand) =>
        \A k \in Entries : Completed(k) =>
            /\ Calls(k, "rd_dis") # {} <=>
                  (need_rd_protect(trace[k].kp) /\ ~cmd.no_read_protect)
            /\ \A j \in Calls(k, "rd_dis") : trace[j].blk = trace[k].blk
            /\ Calls(k, "rd_dis") # {} => efuses.pending.rd[trace[k].blk]

\* a purpose that needs read protection, burned with no_read_protect
C7_Witness ==
    /\ Done /\ NewChip /\ cmd.op = "burn_key" /\ out.status = "ok"
    /\ cmd.no_read_protect
    /\ \E k \in Entries :
          /\ need_rd_protect(trace[k].kp)
          /\ Calls(k, "rd_dis") = {}
          /\ ~efuses.pending.rd[trace[k].blk]

-----------------------------------------------------------------------------
(* C8 *)

\* C8: an entry of burn_key that ran to its end has write protection staged for
\* its block exactly when the suppressing flag (no_write_protect, on ESP32
\* no_protect_key) is false.
C8_WriteProtectIff ==
    (Done /\ (cmd.op = "burn_key" \/ (cmd.op = "burn_key_digest" /\ NewChip))) =>
        \A k \in Entries : Completed(k) =>
            /\ Calls(k, "wr_dis") # {} <=> ~cmd.no_write_protect
            /\ \A j \in Calls(k, "wr_dis") : trace[j].blk = trace[k].blk
            /\ Calls(k, "wr_dis") # {} => efuses.pending.wr[trace[k].blk]

C8_Witness ==
    /\ Done /\ cmd.op = "burn_key" /\ out.status = "ok"
    /\ cmd.no_write_protect
    /\ \E k \in Entries : Calls(k, "wr_dis") = {} /\ ~efuses.pending.wr[trace[k].blk]

-----------------------------------------------------------------------------
(* C9 *)

\* the protection bits that are set in an image
FlagsSet(img) ==
    {<<f, b>> \in {"rd", "wr", "kpwr"} \X KeyBlocks : img[f][b]}

\* C9: no step of any command sequence clears a protection bit: a read
\* protection, write protection or purpose write protection that is staged
\* stays staged, and one that is burned stays burned.
C9_ProtectionNeverCleared ==
    [][/\ FlagsSet(efuses.pending) \subseteq FlagsSet(efuses'.pending)
       /\ FlagsSet(efuses.burned) \subseteq FlagsSet(efuses'.burned)]_vars

\* a block whose write protection is staged is burned again with
\* no_write_protect
C9_Witness ==
    /\ Done /\ cmd.op = "burn_key" /\ ~Failed /\ cmd.no_write_protect
    /\ \E k \in Entries :
          /\ pre.pending.wr[trace[k].blk]
          /\ efuses.pending.wr[trace[k].blk]

-----------------------------------------------------------------------------
(* C10 *)

\* the payload of the only entry of a command, as it is loaded
OnlyPayload ==
    IF cmd.keypurpose[1] = "ECDSA_KEY" /\ chip # "C6"
    THEN EcdsaPad(FileBytes(cmd.keyfile[1]))
    ELSE FileBytes(cmd.keyfile[1])

\* C10: on C6, H2, H21 and P4 the key data staged for an entry is the reverse
\* of the payload when need_reverse holds of the purpose, and the payload as it
\* is otherwise.
C10_ReversedOrAsIs ==
    (Done /\ NewChip /\ KeyCommand) =>
        /\ \A k \in Entries : \A j \in Calls(k, "save_key") :
              /\ trace[j].blk = trace[k].blk
              /\ trace[j].data = IF need_reverse(trace[k].kp)
                                 THEN Reverse(trace[k].data) ELSE trace[k].data
        /\ (cmd.op = "burn_key" /\ Len(cmd.block) = 1 /\ ~HasWide) =>
              \A k \in Entries :
                  /\ trace[k].data = OnlyPayload
                  /\ (Calls(k, "save_key") # {}
                      /\ pre.pending.key[trace[k].blk] = Zeros(Len(OnlyPayload))) =>
                        efuses.pending.key[trace[k].blk] =
                            IF need_reverse(cmd.keypurpose[1])
                            THEN Reverse(OnlyPayload) ELSE OnlyPayload

C10_Witness ==
    /\ Done /\ NewChip /\ cmd.op = "burn_key" /\ ~Failed
    /\ \E k \in Entries :
          /\ need_reverse(trace[k].kp)
          /\ Reverse(trace[k].data) # trace[k].data
          /\ efuses.pending.key[trace[k].blk] = Reverse(trace[k].data)

-----------------------------------------------------------------------------
(* C11 *)

\* the position in the batch of the iteration that starts at k
EntryIndex(k) == Cardinality({j \in Entries : j <= k})

\* how the key data staged by the iteration relates to its payload
StagedAsIs(k) == \A j \in Calls(k, "save_key") : trace[j].data = trace[k].data
StagedReversed(k) == \A j \in Calls(k, "save_key") : trace[j].data = Reverse(trace[k].data)
SameDecision(k1, k2) ==
    \/ StagedAsIs(k1) /\ StagedAsIs(k2)
    \/ StagedReversed(k1) /\ StagedReversed(k2)

\* C11 as amended: on C6, H2, H21 and P4 two entries of a batch with the same
\* purpose get the same reversal decision, whatever their blocks and payloads;
\* on ESP32, which has no key purposes, the decision depends on the name the
\* block is given by: the payload is reversed exactly for the names
\* flash_encryption and secure_boot_v1, and staged as it is for every other
\* name of the same blocks.
C11_ReversalByPurposeOrName ==
    /\ (Done /\ NewChip /\ KeyCommand) =>
          \A k1, k2 \in Entries :
              (/\ Calls(k1, "save_key") # {} /\ Calls(k2, "save_key") # {}
               /\ trace[k1].kp = trace[k2].kp) => SameDecision(k1, k2)
    /\ (Done /\ chip = "ESP32" /\ cmd.op = "burn_key") =>
          \A k \in Entries : Calls(k, "save_key") # {} =>
              IF Truncate(cmd.block)[EntryIndex(k)] \in {"flash_encryption", "secure_boot_v1"}
              THEN StagedReversed(k) ELSE StagedAsIs(k)

\* one ESP32 block, named twice in a batch, once reversed and once not
C11_Witness ==
    /\ Done /\ chip = "ESP32" /\ cmd.op = "burn_key"
    /\ \E k1, k2 \in Entries :
          /\ k1 < k2 /\ trace[k1].blk = trace[k2].blk /\ trace[k1].data = trace[k2].data
          /\ Calls(k1, "save_key") # {} /\ Calls(k2, "save_key") # {}
          /\ StagedReversed(k1) /\ ~StagedAsIs(k1)
          /\ StagedAsIs(k2) /\ ~StagedReversed(k2)

\* C11 as claimed: on every chip two entries of a batch that differ only in the
\* block, or in the name of the block, get the same reversal decision.
C11_SameReversalWhateverBlock ==
    (Done /\ cmd.op = "burn_key") =>
        \A k1, k2 \in Entries :
            (/\ Calls(k1, "save_key") # {} /\ Calls(k2, "save_key") # {}
             /\ trace[k1].kp = trace[k2].kp /\ trace[k1].data = trace[k2].data)
            => SameDecision(k1, k2)

-----------------------------------------------------------------------------
(* C12 *)

\* the lists of the command as burn_key truncates them
ArgBlocks == Truncate(cmd.block)
ArgFiles == Open(Truncate(cmd.keyfile))
ArgPurposes == Truncate(cmd.keypurpose)

\* a P4 burn_key with a wide key whose split went through
SplitDone ==
    /\ Done /\ chip = "P4" /\ cmd.op = "burn_key" /\ HasWide
    /\ out.err \notin SplitErrors

\* list l is list x with its element w taken out and the two elements e1, e2
\* added at its end
SplitOf(l, x, w, e1, e2) ==
    /\ Len(l) = Len(x) + 1
    /\ \A j \in 1..(w - 1) : l[j] = x[j]
    /\ \A j \in (w + 1)..Len(x) : l[j - 1] = x[j]
    /\ l[Len(x)] = e1
    /\ l[Len(x) + 1] = e2

-----------------------------------------------------------------------------
(* C13 *)

\* a P4 burn_key with a wide key that got as far as the scan for a second block
ScanDone ==
    /\ Done /\ chip = "P4" /\ cmd.op = "burn_key" /\ HasWide
    /\ out.err \notin {"index_error", "type_error", "wide_size"}

\* the block the wide key is given for, and the block found for its second half
SourceBlock == get_index_block_by_name("P4", ArgBlocks[IndexOfWide(ArgPurposes)])
SecondBlock ==
    get_index_block_by_name("P4", P4_lists(pre, cmd).block[Len(ArgBlocks) + 1])

\* how far block b is from the source block in the scan, the source block first
ScanPos(b) == (b - SourceBlock) % NumKeyBlocks

\* the conditions on the image the command started with
ReadableWriteableUser(b) ==
    ~pre.burned.rd[b] /\ ~pre.burned.wr[b] /\ pre.burned.kp[b] = PurposeCode("USER")
Untouched(b) ==
    /\ ReadableWriteableUser(b)
    /\ ~pre.burned.kpwr[b]
    /\ \A i \in DOMAIN pre.burned.key[b] : pre.burned.key[b][i] = 0
NamedInBatch(b) ==
    \E i \in DOMAIN ArgBlocks : get_index_block_by_name("P4", ArgBlocks[i]) = b
CanonicalInBatch(b) == KeyBlockNames("P4")[b] \in Range(ArgBlocks)

\* C13 as amended: on P4 the block that receives the second half of a split wide
\* key is the first key block, in index order starting at the original block and
\* wrapping around, that is readable, writeable, carries key purpose USER in a
\* writeable purpose field, holds no burned key bit, and whose canonical name is
\* not in the batch; no block that meets these conditions is skipped, and the
\* split fails for want of a free block exactly when no block meets them.
C13_FirstUntouchedBlock ==
    ScanDone =>
        IF out.err = "no_free_block"
        THEN \A b \in KeyBlocks : ~(Untouched(b) /\ ~CanonicalInBatch(b))
        ELSE LET second == SecondBlock
             IN  /\ second \in KeyBlocks
                 /\ Untouched(second) /\ ~CanonicalInBatch(second)
                 /\ \A b \in KeyBlocks :
                       ScanPos(b) < ScanPos(second) =>
                           ~(Untouched(b) /\ ~CanonicalInBatch(b))

\* a block that is readable, writeable and USER, but holds a key, is passed over
C13_Witness ==
    /\ SplitDone
    /\ \E b \in KeyBlocks :
          /\ ScanPos(b) < ScanPos(SecondBlock) /\ b # SourceBlock
          /\ ReadableWriteableUser(b) /\ ~NamedInBatch(b)
          /\ ~Untouched(b)

\* C13 as claimed: the second block is the first block after the original one
\* that is readable, writeable, carries key purpose USER and is not named
\* elsewhere in the batch; none such is skipped in favour of a later one.
C13_FirstReadableWriteableUser ==
    SplitDone =>
        /\ ReadableWriteableUser(SecondBlock)
        /\ \A b \in KeyBlocks :
              (ScanPos(b) < ScanPos(SecondBlock) /\ b # SourceBlock) =>
                  ~(ReadableWriteableUser(b) /\ ~NamedInBatch(b))

-----------------------------------------------------------------------------
(* C14 *)

\* C14: on P4 the two halves of a split wide key are assigned to two different
\* blocks, also when the batch names the source block by an alias: the entries
\* burn_key works through for XTS_AES_256_KEY_1 and for XTS_AES_256_KEY_2 never
\* have the same block.
C14_HalvesOnDifferentBlocks ==
    SplitDone =>
        /\ SecondBlock # SourceBlock
        /\ \A k1, k2 \in Entries :
              (trace[k1].kp = "XTS_AES_256_KEY_1" /\ trace[k2].kp = "XTS_AES_256_KEY_2")
              => trace[k1].blk # trace[k2].blk

-----------------------------------------------------------------------------
(* C15 *)

\* a P4 burn_key whose batch holds a wide key with a block and a key file
WideChecked ==
    /\ Done /\ chip = "P4" /\ cmd.op = "burn_key" /\ HasWide
    /\ IndexOfWide(ArgPurposes) \in DOMAIN ArgBlocks
    /\ IndexOfWide(ArgPurposes) \in DOMAIN ArgFiles
    /\ Known(ArgBlocks[IndexOfWide(ArgPurposes)])

WidePayloadOff == Len(ArgFiles[IndexOfWide(ArgPurposes)]) # WideKeyBytes
NoFreeBlock == \A b \in KeyBlocks : ~(Untouched(b) /\ ~CanonicalInBatch(b))

-----------------------------------------------------------------------------
(* C16 *)

\* the value a staging call of the trace put into the pending image is there
StagedStill(e, img) ==
    CASE e.op = "save_key" -> OrBytes(img.key[e.blk], e.data) = img.key[e.blk]
      [] e.op = "save_kp" -> BitOr(img.kp[e.blk], PurposeCode(e.kp)) = img.kp[e.blk]
      [] e.op = "wr_dis_kp" -> img.kpwr[e.blk]
      [] e.op = "rd_dis" -> img.rd[e.blk]
      [] e.op = "wr_dis" -> img.wr[e.blk]
      [] e.op = "save_hwk" -> img.hwk = 1
      [] e.op = "save_sdio_force" -> img.sdio_force = 1
      [] e.op = "save_sdio_reg" -> img.sdio_reg = 1
      [] e.op = "save_sdio_tieh" -> img.sdio_tieh = 1
      [] OTHER -> TRUE

StagingCalls == {j \in DOMAIN trace : trace[j].op \notin {"entry", "burn_all"}}

\* C16: when burn_all(check_batch_mode=True) returns false, which it does
\* exactly in batch mode, the command returns without reporting success,
\* nothing is burned, and every value the command staged is in the pending
\* state.
C16_DeferredKeepsPending ==
    (Done /\ ~Failed) =>
        /\ out.status = "deferred" <=> batch_mode
        /\ out.status = "ok" <=> ~batch_mode
        /\ batch_mode =>
              /\ trace[Len(trace)] = Ev("burn_all", 0, <<>>, "False")
              /\ efuses.burned = pre.burned
              /\ StagingCalls # {}
              /\ \A j \in StagingCalls : StagedStill(trace[j], efuses.pending)

\* a key is staged, not burned, and the command has not reported success
C16_Witness ==
    /\ Done /\ out.status = "deferred" /\ cmd.op = "burn_key"
    /\ \E j \in StagingCalls : trace[j].op = "save_key"
    /\ efuses.pending # efuses.burned
    /\ efuses.burned = pre.burned

-----------------------------------------------------------------------------
(* C17 *)

\* the block entry i of the batch names
ArgBlock(i) == get_index_block_by_name(chip, ArgBlocks[i])

\* a burn_key with default options on C6, H2, H21 or P4 whose entries all ask
\* for a purpose that needs read protection, each with a payload of the block's
\* width, on different key blocks that hold nothing, burned or pending
DefaultProtectedBurn ==
    /\ Done /\ NewChip /\ cmd.op = "burn_key"
    /\ ~cmd.no_write_protect /\ ~cmd.no_read_protect
    /\ Len(ArgBlocks) >= 1
    /\ Len(ArgFiles) = Len(ArgBlocks) /\ Len(ArgPurposes) = Len(ArgBlocks)
    /\ \A i \in DOMAIN ArgBlocks :
          /\ Known(ArgBlocks[i])
          /\ need_rd_protect(ArgPurposes[i])
          /\ Len(ArgFiles[i]) = num_bytes(chip, coding_scheme)
          /\ BlankBlock(pre.burned, ArgBlock(i)) /\ BlankBlock(pre.pending, ArgBlock(i))
    /\ \A i, j \in DOMAIN ArgBlocks : i # j => ArgBlock(i) # ArgBlock(j)

\* what such a command has staged for entry i
StagedProtected(i) ==
    /\ efuses.pending.key[ArgBlock(i)] =
          IF need_reverse(ArgPurposes[i]) THEN Reverse(ArgFiles[i]) ELSE ArgFiles[i]
    /\ efuses.pending.kp[ArgBlock(i)] = PurposeCode(ArgPurposes[i])
    /\ efuses.pending.rd[ArgBlock(i)]
    /\ efuses.pending.wr[ArgBlock(i)]

\* C17 as amended: for any purpose that needs read protection, burn_key with
\* default options and a payload of the block's width on an unburned key block
\* ends with key data, purpose, read protection and write protection of the
\* block staged and one call of burn_all; outside batch mode that call burns
\* what is staged and the command succeeds, in batch mode it burns nothing and
\* the command returns with the values staged.
C17_DefaultBurnStagesAll ==
    DefaultProtectedBurn =>
        /\ ~Failed
        /\ \A i \in DOMAIN ArgBlocks : StagedProtected(i)
        /\ BurnAllCalls = {Len(trace)}
        /\ IF batch_mode
           THEN out.status = "deferred" /\ efuses.burned = pre.burned
           ELSE out.status = "ok" /\ efuses.burned = efuses.pending

C17_Witness ==
    /\ DefaultProtectedBurn /\ ~batch_mode
    /\ out.status = "ok"
    /\ \E i \in DOMAIN ArgBlocks :
          /\ ArgPurposes[i] = "XTS_AES_128_KEY"
          /\ efuses.burned.rd[ArgBlock(i)] /\ efuses.burned.wr[ArgBlock(i)]
          /\ efuses.burned.key[ArgBlock(i)] = Reverse(ArgFiles[i])

\* C17 as claimed: such a command ends with everything staged and one
\* successful commit.
C17_DefaultBurnCommits ==
    DefaultProtectedBurn =>
        /\ \A i \in DOMAIN ArgBlocks : StagedProtected(i)
        /\ BurnAllCalls = {Len(trace)}
        /\ out.status = "ok" /\ efuses.burned = efuses.pending

-----------------------------------------------------------------------------
(* C18 *)

\* C18 as amended: ESP32 burn_key_digest first checks that the coding scheme is
\* none and raises otherwise, before the chip revision is looked at, before the
\* digest is computed and before anything is staged. ESP32 burn_key makes no
\* such check: under the 3/4 scheme it takes the width of the coded block for
\* the payload size and stages a payload of that width.
C18_SchemeCheckedByDigestOnly ==
    (Done /\ chip = "ESP32") =>
        /\ (cmd.op = "burn_key_digest" /\ coding_scheme # "NONE") =>
              /\ Failed /\ out.err = "coding_scheme"
              /\ trace = <<>> /\ efuses = pre
        /\ out.err = "coding_scheme" =>
              cmd.op = "burn_key_digest" /\ coding_scheme # "NONE"
        /\ cmd.op = "burn_key" =>
              \A k \in Entries :
                  Len(trace[k].data) = num_bytes("ESP32", coding_scheme) =>
                      Calls(k, "save_key") # {} \/ (out.err = "save" /\ k = Len(trace))

\* the scheme is refused although the revision would be refused as well
C18_Witness ==
    /\ Done /\ chip = "ESP32" /\ cmd.op = "burn_key_digest"
    /\ coding_scheme = "34" /\ chip_revision < MinSbv2Revision
    /\ out.err = "coding_scheme" /\ trace = <<>>

\* C18 as claimed: under a redundant coding scheme burn_key and burn_key_digest
\* raise before anything is staged.
C18_SchemeCheckedByAll ==
    (Done /\ chip = "ESP32" /\ KeyCommand /\ coding_scheme # "NONE") =>
        Failed /\ StagingCalls = {}

-----------------------------------------------------------------------------
(* C19 *)

\* C19: ESP32 burn_key_digest on a chip of a revision below 300 raises before
\* the digest is computed, before BLOCK2 is staged and without calling
\* burn_all (for the revision, unless the coding scheme was refused before it);
\* on a chip of revision 300 or more it never raises for the revision.
C19_RevisionChecked ==
    (Done /\ chip = "ESP32" /\ cmd.op = "burn_key_digest") =>
        /\ chip_revision < MinSbv2Revision =>
              /\ Failed /\ out.err \in {"coding_scheme", "revision"}
              /\ coding_scheme = "NONE" => out.err = "revision"
              /\ trace = <<>> /\ BurnAllCalls = {}
              /\ efuses = pre
        /\ chip_revision >= MinSbv2Revision => out.err # "revision"
        /\ (chip_revision >= MinSbv2Revision /\ coding_scheme = "NONE"
            /\ BlankBlock(pre.burned, Esp32DigestBlock)) =>
              \E j \in DOMAIN trace : trace[j].op = "save_key" /\ trace[j].blk = Esp32DigestBlock

\* the first revision that is refused, with something staged before the call
C19_Witness ==
    /\ Done /\ chip = "ESP32" /\ cmd.op = "burn_key_digest"
    /\ chip_revision = MinSbv2Revision - 1 /\ coding_scheme = "NONE"
    /\ out.err = "revision"
    /\ pre.pending # pre.burned /\ efuses = pre

-----------------------------------------------------------------------------
(* C20 *)

\* the raw signing key bytes of the iteration that starts at k
RawKey(k) == ArgFiles[EntryIndex(k)]

\* a burn_key of a chip with ECDSA keys, whose entries are those of the command
EcdsaBurn ==
    /\ Done /\ chip \in {"H2", "H21", "P4"} /\ cmd.op = "burn_key" /\ ~HasWide

\* C20 as amended: for purpose ECDSA_KEY on H2, H21 and P4 a raw signing key of
\* exactly 24 bytes is padded with 8 zero bytes on the left before the size
\* check, passes it, and is staged as the reverse of the padded key; a raw key
\* of any other length is left as it is, and one that is shorter than the
\* block fails the size check with nothing staged.
C20_ShortKeyPadded ==
    EcdsaBurn =>
        \A k \in Entries : trace[k].kp = "ECDSA_KEY" =>
            IF Len(RawKey(k)) = EcdsaShortBytes
            THEN /\ trace[k].data = Zeros(num_bytes(chip, "NONE") - Len(RawKey(k))) \o RawKey(k)
                 /\ Len(trace[k].data) = num_bytes(chip, "NONE")
                 /\ ~(out.err = "size" /\ k = Len(trace))
                 /\ \A j \in Calls(k, "save_key") : trace[j].data = Reverse(trace[k].data)
            ELSE /\ trace[k].data = RawKey(k)
                 /\ Len(RawKey(k)) < num_bytes(chip, "NONE") =>
                       /\ out.err = "size" /\ k = Len(trace)
                       /\ efuses = pre

\* a 24-byte key is burned: its bytes, reversed, then the padding
C20_Witness ==
    /\ EcdsaBurn /\ ~Failed /\ ~batch_mode
    /\ \E k \in Entries :
          /\ trace[k].kp = "ECDSA_KEY" /\ RawKey(k) = Raw24
          /\ efuses.burned.key[trace[k].blk] = Reverse(Raw24) \o Zeros(EcdsaPadBytes)

\* C20 as claimed: a raw signing key of any length below the block width is
\* padded to the block width and passes the size check.
C20_AnyShortKeyPadded ==
    EcdsaBurn =>
        \A k \in Entries :
            (trace[k].kp = "ECDSA_KEY" /\ Len(RawKey(k)) < num_bytes(chip, "NONE")) =>
                /\ Len(trace[k].data) = num_bytes(chip, "NONE")
                /\ ~(out.err = "size" /\ k = Len(trace))

-----------------------------------------------------------------------------
(* C21 *)

PreconditionErrors ==
    ListErrors \cup EntryErrors \cup SplitErrors
    \cup {"save", "kp_write_protected", "unbound_local", "digest_size", "coding_scheme",
          "revision", "sdio_reg", "sdio_tieh"}

\* C21: when the transport fails during burn_all, the command ends with the
\* error of the transport: it does not return, it does not report success, and
\* its outcome is neither one of the precondition failures nor the return of
\* batch mode. It is the only error raised after burn_all was called.
C21_TransportErrorPropagates ==
    Done =>
        /\ (BurnAllCalls # {} /\ ~batch_mode) =>
              /\ out.status = "raise" /\ out.err = "transport"
              /\ out.err \notin PreconditionErrors
              /\ BurnAllCalls = {Len(trace)}
        /\ out.err = "transport" => BurnAllCalls # {} /\ ~batch_mode
        /\ (Failed /\ out.err # "transport") =>
              BurnAllCalls = {} /\ out.err \in PreconditionErrors
        /\ batch_mode => out.err # "transport"

\* the chip has burned the key, and the command has failed
C21_Witness ==
    /\ Done /\ cmd.op = "burn_key" /\ transport = "fail_burned"
    /\ out.status = "raise" /\ out.err = "transport"
    /\ efuses.burned # pre.burned

-----------------------------------------------------------------------------
(* C22 *)

\* C22: on ESP32, unless no_protect_key is given, every key block burn_key
\* stages a key for has its read protection and its write protection staged,
\* whichever of its names the block is given by.
C22_Esp32KeyProtected ==
    (Done /\ chip = "ESP32" /\ cmd.op = "burn_key" /\ ~cmd.no_write_protect) =>
        \A k \in Entries : (Completed(k) /\ Calls(k, "save_key") # {}) =>
            /\ efuses.pending.rd[trace[k].blk]
            /\ efuses.pending.wr[trace[k].blk]

-----------------------------------------------------------------------------
(* C23 *)

\* the flash voltage setting an image holds: 0 none, 1 OFF, 2 1.8V, 3 3.3V
VoltageLevel(img) ==
    IF img.sdio_tieh # 0 THEN 3
    ELSE IF img.sdio_reg # 0 THEN 2
    ELSE IF img.sdio_force # 0 THEN 1
    ELSE 0

RequestedLevel(v) == CASE v = "OFF" -> 1 [] v = "1.8V" -> 2 [] OTHER -> 3

SetVoltage == Done /\ chip = "ESP32" /\ cmd.op = "set_flash_voltage"

\* C23: once a flash voltage setting is burned, set_flash_voltage asked for a
\* lower one (OFF after 1.8V or 3.3V, 1.8V after 3.3V) raises and stages
\* nothing, and no set_flash_voltage lowers the setting that is burned.
C23_VoltageOnlyUpward ==
    SetVoltage =>
        /\ RequestedLevel(cmd.voltage) < VoltageLevel(pre.burned) =>
              /\ Failed /\ out.err \in {"sdio_reg", "sdio_tieh"}
              /\ trace = <<>>
              /\ efuses = pre
        /\ VoltageLevel(efuses.burned) >= VoltageLevel(pre.burned)
        /\ VoltageLevel(efuses.pending) >= VoltageLevel(pre.pending)

\* 1.8V is asked for on a chip that was set to 3.3V
C23_Witness ==
    /\ SetVoltage /\ cmd.voltage = "1.8V"
    /\ VoltageLevel(pre.burned) = 3
    /\ Failed /\ efuses = pre

-----------------------------------------------------------------------------
(* C24 *)

\* C24: set_flash_voltage asked for a higher setting than the burned one
\* (1.8V or 3.3V after OFF, 3.3V after 1.8V) raises nothing and stages the
\* requested setting; outside batch mode it burns it.
C24_UpgradeSucceeds ==
    (/\ SetVoltage
     /\ VoltageLevel(pre.burned) >= 1
     /\ RequestedLevel(cmd.voltage) > VoltageLevel(pre.burned)) =>
        /\ ~Failed
        /\ VoltageLevel(efuses.pending) = RequestedLevel(cmd.voltage)
        /\ ~batch_mode =>
              /\ out.status = "ok"
              /\ VoltageLevel(efuses.burned) = RequestedLevel(cmd.voltage)

\* 3.3V is burned on a chip that was set to 1.8V
C24_Witness ==
    /\ SetVoltage /\ cmd.voltage = "3.3V"
    /\ VoltageLevel(pre.burned) = 2
    /\ out.status = "ok"
    /\ VoltageLevel(efuses.burned) = 3

-----------------------------------------------------------------------------
(* C25 *)

\* byte string p has every bit set that byte string b has set
Covers(p, b) ==
    \/ p = b
    \/ /\ Len(p) = Len(b)
       /\ \A i \in DOMAIN b : b[i] = 0 \/ BitOr(p[i], b[i]) = p[i]

\* every bit that is set in the burned image is set in the pending image
PendingCoversBurned(ef) ==
    /\ \A b \in KeyBlocks :
          /\ Covers(ef.pending.key[b], ef.burned.key[b])
          /\ BitOr(ef.pending.kp[b], ef.burned.kp[b]) = ef.pending.kp[b]
          /\ ef.burned.rd[b] => ef.pending.rd[b]
          /\ ef.burned.wr[b] => ef.pending.wr[b]
          /\ ef.burned.kpwr[b] => ef.pending.kpwr[b]
    /\ ef.burned.hwk <= ef.pending.hwk
    /\ ef.burned.sdio_force <= ef.pending.sdio_force
    /\ ef.burned.sdio_reg <= ef.pending.sdio_reg
    /\ ef.burned.sdio_tieh <= ef.pending.sdio_tieh

\* the pending image after one staging call of the trace
Staged(img, e) ==
    CASE e.op = "save_key" -> [img EXCEPT !.key[e.blk] = OrBytes(@, e.data)]
      [] e.op = "save_kp" -> [img EXCEPT !.kp[e.blk] = BitOr(@, PurposeCode(e.kp))]
      [] e.op = "wr_dis_kp" -> [img EXCEPT !.kpwr[e.blk] = TRUE]
      [] e.op = "rd_dis" -> [img EXCEPT !.rd[e.blk] = TRUE]
      [] e.op = "wr_dis" -> [img EXCEPT !.wr[e.blk] = TRUE]
      [] e.op = "save_hwk" -> [img EXCEPT !.hwk = 1]
      [] e.op = "save_sdio_force" -> [img EXCEPT !.sdio_force = 1]
      [] e.op = "save_sdio_reg" -> [img EXCEPT !.sdio_reg = 1]
      [] e.op = "save_sdio_tieh" -> [img EXCEPT !.sdio_tieh = 1]
      [] OTHER -> img

\* the pending image after the first n calls of the trace
RECURSIVE StagedUpTo(_, _)
StagedUpTo(img, n) == IF n = 0 THEN img ELSE Staged(StagedUpTo(img, n - 1), trace[n])

\* C25: in every state the pending image of every block and field has every
\* bit set that the burned image has set; no call of a command stages a key or
\* a purpose that clears a burned bit, and the save that would do so raises
\* and changes nothing: the pending image is the one the calls before it left.
C25_PendingCoversBurned ==
    /\ PendingCoversBurned(efuses)
    /\ Done =>
          /\ \A j \in DOMAIN trace :
                /\ trace[j].op = "save_key" =>
                      Covers(trace[j].data, pre.burned.key[trace[j].blk])
                /\ trace[j].op = "save_kp" =>
                      BitOr(PurposeCode(trace[j].kp), pre.burned.kp[trace[j].blk])
                          = PurposeCode(trace[j].kp)
          /\ (Failed /\ out.err = "save") =>
                /\ efuses.pending = StagedUpTo(pre.pending, Len(trace))
                /\ efuses.burned = pre.burned

\* a key that lacks burned bits of a writeable block is refused
C25_Witness ==
    /\ Done /\ Failed /\ out.err = "save"
    /\ trace # <<>> /\ trace[Len(trace)].op = "entry"
    /\ ~pre.burned.wr[trace[Len(trace)].blk]
    /\ ClearsBits(trace[Len(trace)].data, pre.burned.key[trace[Len(trace)].blk])
    /\ efuses = pre

-----------------------------------------------------------------------------
(* C26 *)

\* the iteration that starts at k found the requested purpose burned
Reconfirmed(k) == pre.burned.kp[trace[k].blk] = PurposeCode(trace[k].kp)

NewChipBurnKey == Done /\ NewChip /\ cmd.op = "burn_key"

\* C26 as amended: in burn_key on C6, H2, H21 and P4 the need_rd_protect table
\* is consulted for every entry before the purpose is compared: an entry whose
\* burned purpose already equals the requested one stages no purpose, and it
\* stages the read protection of its key block exactly when the purpose needs
\* it and no_read_protect is false, as an entry with a new purpose does.
C26_ReadProtectInBothBranches ==
    NewChipBurnKey =>
        \A k \in Entries : Completed(k) =>
            /\ Reconfirmed(k) => Calls(k, "save_kp") = {}
            /\ (Calls(k, "rd_dis") # {}) =
                  (need_rd_protect(trace[k].kp) /\ ~cmd.no_read_protect)

\* a purpose that needs read protection is burned, and burn_key run again for
\* it stages the read protection
C26_Witness ==
    /\ NewChipBurnKey /\ ~Failed
    /\ \E k \in Entries :
          /\ Reconfirmed(k) /\ need_rd_protect(trace[k].kp)
          /\ ~pre.pending.rd[trace[k].blk]
          /\ Calls(k, "save_kp") = {}
          /\ Calls(k, "rd_dis") # {}
          /\ efuses.pending.rd[trace[k].blk]

\* C26 as stated: an entry whose burned purpose equals the requested one
\* stages no read protection of its key block
C26_NoReadProtectWhenReconfirmed ==
    NewChipBurnKey =>
        \A k \in Entries : (Completed(k) /\ Reconfirmed(k)) => Calls(k, "rd_dis") = {}

-----------------------------------------------------------------------------
(* C27 *)

\* C27: burn_key given a duplicate block name or lists of unequal counts fails
\* on that check, and a burn_key or burn_key_digest that fails on either check
\* has made no call that stages or burns: every block and field, pending and
\* burned, is as it was before the call.
C27_ListErrorStagesNothing ==
    (Done /\ KeyCommand) =>
        /\ (cmd.op = "burn_key" /\ ~HasWide
            /\ (HasDuplicate(ArgBlocks) \/ CountsDiffer)) =>
              Failed /\ out.err \in ListErrors
        /\ (Failed /\ out.err \in ListErrors) =>
              /\ trace = <<>>
              /\ efuses = pre

\* a batch of two entries, with a block named twice or a payload short
C27_Witness ==
    /\ Done /\ cmd.op = "burn_key" /\ Failed /\ out.err \in ListErrors
    /\ Len(ArgBlocks) = 2
    /\ efuses = pre

-----------------------------------------------------------------------------
(* C28 *)

NewChipBurnKeyDigest == Done /\ NewChip /\ cmd.op = "burn_key_digest"

\* C28: burn_key_digest on C6, H2, H21 and P4 checks every entry before it
\* stages any: when a block of the batch is unknown the command raises, and
\* when it raises for an unknown block or for the size of a digest no call has
\* staged or burned anything, the entries before the failing one included.
C28_DigestBatchCheckedFirst ==
    NewChipBurnKeyDigest =>
        /\ (\E i \in DOMAIN ArgBlocks : ~Known(ArgBlocks[i])) =>
              /\ Failed /\ out.err \in {"unknown_block"} \cup ListErrors
              /\ trace = <<>>
              /\ efuses = pre
        /\ (Failed /\ out.err \in {"unknown_block", "digest_size"}) =>
              /\ trace = <<>>
              /\ efuses = pre

\* the second block of the batch is unknown, the first one is left as it was
C28_Witness ==
    /\ NewChipBurnKeyDigest /\ Failed
    /\ out.err = "unknown_block" /\ out.at = 2
    /\ Known(ArgBlocks[1])
    /\ trace = <<>> /\ efuses = pre

-----------------------------------------------------------------------------
(* C29 *)

\* the chip has ECDSA_FORCE_USE_HARDWARE_K
HasHardwareK == chip = "H21" \/ (chip = "H2" /\ chip_version <= MaxHwKVersion)

HardwareKCalls == {j \in DOMAIN trace : trace[j].op = "save_hwk"}

\* C29: on H2 of chip version 101 or lower and on H21, an ECDSA_KEY entry of
\* burn_key that ran to its end leaves ECDSA_FORCE_USE_HARDWARE_K pending as 1,
\* and it staged the fuse exactly when the fuse was burned as 0; an entry of
\* any other purpose, every entry on H2 of a higher chip version, and every
\* command of the other chips stage the fuse never.
C29_HardwareKWhereTheChipHasIt ==
    Done =>
        /\ \A k \in Entries : Completed(k) =>
              IF HasHardwareK /\ cmd.op = "burn_key" /\ trace[k].kp = "ECDSA_KEY"
              THEN /\ efuses.pending.hwk = 1
                   /\ (Calls(k, "save_hwk") # {}) = (pre.burned.hwk = 0)
              ELSE Calls(k, "save_hwk") = {}
        /\ \A j \in HardwareKCalls :
              /\ HasHardwareK /\ cmd.op = "burn_key"
              /\ \E k \in Entries : j \in Calls(k, "save_hwk") /\ trace[k].kp = "ECDSA_KEY"
        /\ HardwareKCalls = {} => efuses.pending.hwk = pre.pending.hwk

\* an H2 of chip version 101 or lower burns its first ECDSA key
C29_Witness ==
    /\ Done /\ chip = "H2" /\ chip_version <= MaxHwKVersion
    /\ cmd.op = "burn_key" /\ ~Failed
    /\ pre.burned.hwk = 0
    /\ \E k \in Entries : trace[k].kp = "ECDSA_KEY" /\ Calls(k, "save_hwk") # {}
    /\ efuses.pending.hwk = 1

-----------------------------------------------------------------------------
(* C30 *)

\* C30: on P4 no entry of burn_key whose purpose is the virtual purpose
\* XTS_AES_256_KEY reaches the staging: neither key data nor a purpose is
\* staged for such an entry, and the purpose staged for any entry is not the
\* virtual one, also in a batch with more than one XTS_AES_256_KEY entry.
C30_VirtualPurposeNeverStaged ==
    (Done /\ chip = "P4" /\ cmd.op = "burn_key") =>
        /\ \A k \in Entries : trace[k].kp = "XTS_AES_256_KEY" =>
              Calls(k, "save_key") = {} /\ Calls(k, "save_kp") = {}
        /\ \A j \in DOMAIN trace : trace[j].op = "save_kp" => trace[j].kp # "XTS_AES_256_KEY"

-----------------------------------------------------------------------------
(* C31 *)

\* the lists a key command is given
ArgLists == {cmd.block, cmd.keyfile, cmd.keypurpose}

\* C31: the truncation at the start of burn_key and burn_key_digest keeps
\* every entry of the list that is set and no entry that is unset, also when
\* an unset entry stands before a set one.
C31_TruncateDropsUnset ==
    (Done /\ KeyCommand) =>
        \A l \in ArgLists :
            /\ Truncate(l) = SelectSeq(l, LAMBDA x : x # None)
            /\ None \notin Range(Truncate(l))

-----------------------------------------------------------------------------
(* C32 *)

Esp32Digest == Done /\ chip = "ESP32" /\ cmd.op = "burn_key_digest"

\* the calls of one kind in the trace
CallsOf(op) == {j \in DOMAIN trace : trace[j].op = op}

\* C32: ESP32 burn_key_digest stages the digest of the key file into BLOCK2
\* and touches no other block; it stages the write protection of BLOCK2
\* exactly when no_protect_key is false and never a read protection; when it
\* raises for the coding scheme, the chip revision or the size of the digest
\* it has staged nothing.
C32_Esp32DigestToBlock2 ==
    Esp32Digest =>
        /\ \A j \in StagingCalls :
              /\ trace[j].op \in {"save_key", "wr_dis"}
              /\ trace[j].blk = Esp32DigestBlock
        /\ \A j \in CallsOf("save_key") :
              trace[j].data = digest_sbv2_public_key(cmd.keyfile[1])
        /\ \A b \in KeyBlocks \ {Esp32DigestBlock} :
              BlockState(efuses.pending, b) = BlockState(pre.pending, b)
        /\ efuses.pending.rd = pre.pending.rd
        /\ ~Failed =>
              /\ Cardinality(CallsOf("save_key")) = 1
              /\ (CallsOf("wr_dis") # {}) = ~cmd.no_write_protect
              /\ efuses.pending.key[Esp32DigestBlock] =
                    OrBytes(pre.pending.key[Esp32DigestBlock],
                            digest_sbv2_public_key(cmd.keyfile[1]))
        /\ (Failed /\ out.err \in {"coding_scheme", "revision", "digest_size"}) =>
              trace = <<>> /\ efuses = pre

\* the digest is burned and BLOCK2 write-protected, and stays readable
C32_Witness ==
    /\ Esp32Digest /\ out.status = "ok" /\ ~cmd.no_write_protect
    /\ efuses.burned.key[Esp32DigestBlock] = digest_sbv2_public_key(cmd.keyfile[1])
    /\ efuses.burned.wr[Esp32DigestBlock]
    /\ ~efuses.burned.rd[Esp32DigestBlock]

-----------------------------------------------------------------------------
(* C33 *)

\* the calls of set_flash_voltage for a voltage, up to burn_all
VoltageCalls(v) ==
    <<Ev("save_sdio_force", 0, <<>>, "")>>
    \o (IF v # "OFF" THEN <<Ev("save_sdio_reg", 0, <<>>, "")>> ELSE <<>>)
    \o (IF v = "3.3V" THEN <<Ev("save_sdio_tieh", 0, <<>>, "")>> ELSE <<>>)

\* C33: an ESP32 set_flash_voltage that raises nothing has saved 1 into
\* XPD_SDIO_FORCE, into XPD_SDIO_REG exactly when the voltage is not OFF, and
\* into XPD_SDIO_TIEH exactly when the voltage is 3.3V, and has staged nothing
\* else: the three fuses that were pending stay pending and no key block, key
\* purpose, protection bit or other fuse has changed in the pending image.
C33_VoltageStagesItsFuses ==
    (SetVoltage /\ ~Failed) =>
        /\ SubSeq(trace, 1, Len(trace) - 1) = VoltageCalls(cmd.voltage)
        /\ trace[Len(trace)].op = "burn_all"
        /\ efuses.pending =
              [pre.pending EXCEPT
                  !.sdio_force = 1,
                  !.sdio_reg = IF cmd.voltage # "OFF" THEN 1 ELSE @,
                  !.sdio_tieh = IF cmd.voltage = "3.3V" THEN 1 ELSE @]

\* 1.8V on a blank chip: two fuses staged, XPD_SDIO_TIEH left at 0
C33_Witness ==
    /\ SetVoltage /\ ~Failed /\ cmd.voltage = "1.8V"
    /\ pre.pending.sdio_force = 0
    /\ efuses.pending.sdio_force = 1 /\ efuses.pending.sdio_reg = 1
    /\ efuses.pending.sdio_tieh = 0

-----------------------------------------------------------------------------
(* C34 *)

\* C34: a burn_key whose batch passes the duplicate check has no two entries
\* on the same physical block, and stages key data into no block twice, also
\* when one entry names the block by its canonical name and another by an alias.
C34_NoBlockTwice ==
    (Done /\ cmd.op = "burn_key" /\ out.err # "duplicate") =>
        /\ \A j, k \in Entries : j # k => trace[j].blk # trace[k].blk
        /\ \A j, k \in CallsOf("save_key") : j # k => trace[j].blk # trace[k].blk

-----------------------------------------------------------------------------
(* C35 *)

\* C35: after every entry that burn_key or burn_key_digest on C6, H2, H21 and
\* P4 ran to its end, the write protection of the block's key-purpose field is
\* pending: it was burned already, or the entry staged it, and it staged it
\* exactly when it was not burned; no_write_protect and the burned purpose
\* being the requested one make no difference.
C35_PurposeFieldProtected ==
    (Done /\ NewChip /\ KeyCommand) =>
        \A k \in Entries : Completed(k) =>
            /\ efuses.pending.kpwr[trace[k].blk]
            /\ (Calls(k, "wr_dis_kp") # {}) = ~pre.burned.kpwr[trace[k].blk]
            /\ \A j \in Calls(k, "wr_dis_kp") : trace[j].blk = trace[k].blk

\* the purpose is the burned one, no_write_protect is set, and the purpose
\* field is write-protected by the entry
C35_Witness ==
    /\ NewChipBurnKey /\ ~Failed /\ cmd.no_write_protect
    /\ \E k \in Entries :
          /\ Reconfirmed(k) /\ ~pre.pending.kpwr[trace[k].blk]
          /\ Calls(k, "wr_dis_kp") # {}
          /\ efuses.pending.kpwr[trace[k].blk]
          /\ ~efuses.pending.wr[trace[k].blk]

-----------------------------------------------------------------------------
(* C36 *)

\* an ESP32 burn_key of one entry whose block is given by an alias that has a
\* canonical twin in the command's choices
Esp32AliasBurn ==
    /\ Done /\ chip = "ESP32" /\ cmd.op = "burn_key"
    /\ Len(cmd.block) = 1
    /\ cmd.block[1] \in {"flash_encryption", "secure_boot_v1"}

\* the same command with the block given by its canonical name
CanonicalTwin ==
    [cmd EXCEPT !.block =
        <<KeyBlockNames("ESP32")[get_index_block_by_name("ESP32", cmd.block[1])]>>]

\* C36: on ESP32 burn_key of a block given by its alias (flash_encryption,
\* secure_boot_v1) stages the key bytes and protection flags, and ends the way,
\* that the same command does with the block given by its canonical name
\* (BLOCK1, BLOCK2).
C36_AliasLikeCanonical ==
    Esp32AliasBurn =>
        /\ efuses.pending =
              Esp32_burn_key(pre, CanonicalTwin, batch_mode, coding_scheme).ef.pending
        /\ out = Esp32_burn_key(pre, CanonicalTwin, batch_mode, coding_scheme).out

-----------------------------------------------------------------------------
(* C37 *)

\* XPD_SDIO_TIEH = 1 implies XPD_SDIO_REG = 1 implies XPD_SDIO_FORCE = 1
VoltageFusesOrdered(img) ==
    /\ img.sdio_tieh = 1 => img.sdio_reg = 1
    /\ img.sdio_reg = 1 => img.sdio_force = 1

\* C37: on a chip that starts with the three flash voltage fuses unburned,
\* after any sequence of commands, failed set_flash_voltage commands included,
\* XPD_SDIO_TIEH = 1 implies XPD_SDIO_REG = 1 implies XPD_SDIO_FORCE = 1, in
\* the pending image and in the burned image.
C37_VoltageFusesOrdered ==
    /\ VoltageFusesOrdered(efuses.pending)
    /\ VoltageFusesOrdered(efuses.burned)

\* 3.3V is burned, and a set_flash_voltage that follows is refused
C37_Witness ==
    /\ SetVoltage /\ Failed
    /\ efuses.burned.sdio_tieh = 1 /\ efuses.burned.sdio_reg = 1
    /\ efuses.burned.sdio_force = 1

-----------------------------------------------------------------------------
(* C38 *)

\* C38: when ESP32 set_flash_voltage OFF ends without an error, XPD_SDIO_REG
\* is 0 in the pending image, also in batch mode after a command that staged
\* 1.8V or 3.3V and has not been burned.
C38_OffLeavesRegulatorOff ==
    (SetVoltage /\ ~Failed /\ cmd.voltage = "OFF") => efuses.pending.sdio_reg = 0

-----------------------------------------------------------------------------
(* C39 *)

\* the key blocks the command may write: the blocks its batch names, by name or
\* by alias (BLOCK2 for the ESP32 burn_key_digest, which takes no block), and
\* the block found for the second half of a split wide key
BatchBlocks ==
    IF chip = "ESP32" /\ cmd.op = "burn_key_digest"
    THEN {get_index_block_by_name("ESP32", "BLOCK2")}
    ELSE {get_index_block_by_name(chip, cmd.block[i]) :
              i \in {j \in DOMAIN cmd.block : cmd.block[j] # None}}
OutsideBatch(b) ==
    /\ b \notin BatchBlocks
    /\ SplitDone => b # SecondBlock

\* C39: burn_key and burn_key_digest leave the pending key data, key purpose
\* and protection flags of every key block that the batch does not name and
\* that is not the second block of a split wide key as they were.
C39_OtherBlocksUntouched ==
    (Done /\ KeyCommand) =>
        \A b \in KeyBlocks :
            OutsideBatch(b) => BlockState(efuses.pending, b) = BlockState(pre.pending, b)

\* a wide key is split over two blocks and staged, next to a block that an
\* earlier command of the batch session has staged
C39_Witness ==
    /\ SplitDone /\ ~Failed
    /\ efuses.pending # pre.pending
    /\ \E b \in KeyBlocks : OutsideBatch(b) /\ ~BlankBlock(pre.pending, b)

-----------------------------------------------------------------------------
(* C40 *)

\* a batch without an ECDSA_KEY and without an XTS_AES_256_KEY purpose
PlainBatch ==
    \A i \in DOMAIN cmd.keypurpose :
        cmd.keypurpose[i] \notin {"ECDSA_KEY", "XTS_AES_256_KEY"}

\* the command ended, staged and left the image as run s of it does
SameRun(s) ==
    \E d \in BOOLEAN : s = [ef |-> efuses, trace |-> trace, out |-> out, dis_kp |-> d]

\* C40: for a batch with neither an ECDSA_KEY nor an XTS_AES_256_KEY purpose,
\* burn_key of C6, H2, H21 and P4, started on the same image with the same
\* arguments, end the same way with the same sequence of staged writes, and so
\* do their burn_key_digest: whichever of the four classes ran the command, it
\* ended, staged and left the image as the C6 class does.
C40_ChipAgnostic ==
    (Done /\ KeyCommand /\ PlainBatch) =>
        IF cmd.op = "burn_key"
        THEN SameRun(C6_burn_key(pre, cmd, batch_mode))
        ELSE SameRun(C6_burn_key_digest(pre, cmd, batch_mode))

\* a burn_key of two keys, one of them reversed and read-protected, on an image
\* in which an ECDSA_KEY command of the H2 or H21 class has staged
\* ECDSA_FORCE_USE_HARDWARE_K, ending as the P4 class ends it
C40_Witness ==
    /\ Done /\ cmd.op = "burn_key" /\ PlainBatch /\ ~Failed
    /\ Len(ArgBlocks) = 2
    /\ \E k \in DOMAIN trace : trace[k].op = "rd_dis"
    /\ pre.pending.hwk = 1
    /\ SameRun(P4_burn_key(pre, cmd, batch_mode))

=============================================================================
